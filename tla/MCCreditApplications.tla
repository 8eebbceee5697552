------------------------ MODULE MCCreditApplications ------------------------
(* Applicants and leads that share an e-mail or a phone, and the settings
   that take every branch of the announcement. *)
EXTENDS CreditApplications

CONSTANTS ann, bob, long, other, short

MCApplicants == {<<ann, short, other, long>>, <<bob, other>>, <<short>>}

MCLeads == {<<bob, long>>, <<bob, short>>}

Full == [ghl |-> TRUE, webhook |-> TRUE, email |-> TRUE, broker |-> TRUE,
         fallback |-> TRUE]

MCDeployments == {Full,
                  [Full EXCEPT !.fallback = FALSE],
                  [Full EXCEPT !.ghl = FALSE],
                  [Full EXCEPT !.broker = FALSE],
                  [Full EXCEPT !.webhook = FALSE, !.email = FALSE]}
=============================================================================
