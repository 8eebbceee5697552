------------------------- MODULE CreditApplications -------------------------
(***************************************************************************)
(* A credit application is stored and announced                            *)
(* (app/routes/credit.py, app/routes/frontend_compat.py,                   *)
(* app/services/credit_application_delivery.py), and the contacts of the   *)
(* CRM (GoHighLevel) that decide to whom: app/services/ghl_contacts.py,    *)
(* which the background tasks of new leads feed                            *)
(* (process_new_lead_integrations in app/services/lead_delivery.py; the    *)
(* webhook call it ends with is module LeadDelivery).                      *)
(*                                                                         *)
(* The announcement runs in the request's thread after the row is          *)
(* committed.  It is a series of calls to other systems, each of which may *)
(* fail, or do its work and fail to answer; between two calls the other    *)
(* requests and tasks run.                                                 *)
(***************************************************************************)
EXTENDS Naturals, Sequences, SequencesExt

CONSTANTS Emails, Phones,  \* normalised: lower case, digits up to the last ten
          Short,           \* the phones of fewer than seven digits
          AppIds,          \* ids the credit_applications table can hand out
          LeadTasks,       \* threads that process a new lead
          Applicants,      \* what applications give (and staff enters)
          Leads,           \* what leads give: an e-mail and a phone
          Deployments,     \* the settings the service may be started with
          MaxAttempts,     \* credit_application_webhook_max_attempts
          MaxContacts      \* bound: contacts the CRM can hold

Keys == Emails \cup Phones

\* ghl: token and location are set; webhook: its URL is set; email:
\* credit_application_email_enabled; broker: a notify or broker address is
\* set; fallback: credit_application_ghl_fallback_email is set.
Deployment == [ghl : BOOLEAN, webhook : BOOLEAN, email : BOOLEAN,
               broker : BOOLEAN, fallback : BOOLEAN]

ASSUME InputsAllowed == /\ Short \subseteq Phones
                        /\ Emails \cap Phones = {}
                        /\ Applicants \subseteq Seq(Keys)
                        /\ Leads \subseteq Seq(Keys)
                        /\ \A q \in Leads : ToSet(q) \cap Emails # {}
                        /\ Deployments \subseteq Deployment
                        /\ MaxAttempts \in Nat \ {0}
                        /\ MaxContacts \in Nat

VARIABLES settings,  \* read once, at start
          contacts,  \* the CRM's contacts, in the order they were added
          apps,      \* id -> the row's announcement
          leads      \* lead task -> what it is doing

vars == <<settings, contacts, apps, leads>>
-----------------------------------------------------------------------------
Channel == {"webhook", "broker", "fallback"}
LookupStatus == {"found", "not_found", "not_configured", "error"}

\* `before`: how many contacts there were when the lookup began that led to
\* this one being created (history only).
Contact == [keys : SUBSET Keys, before : 0 .. MaxContacts]

\* pc names the next call; todo: the places in what was given that are still
\* to be asked about.  History: known (was the applicant a contact when
\* he applied?), told (who got it), failed (an announcing call failed).
App == [pc : {"none", "search", "done", "lost"} \cup Channel,
        given : Applicants \cup {<<>>}, todo : SUBSET Nat,
        status : LookupStatus, attempt : 0 .. MaxAttempts,
        known : BOOLEAN, told : SUBSET Channel, failed : BOOLEAN]

NoApp == [pc |-> "none", given |-> <<>>, todo |-> {}, status |-> "error",
          attempt |-> 0, known |-> FALSE, told |-> {}, failed |-> FALSE]

Idle == [pc |-> "idle"]

LeadTask == {Idle}
            \cup [pc : {"search"}, lead : Leads, todo : SUBSET Nat,
                  before : 0 .. MaxContacts]
            \cup [pc : {"create"}, lead : Leads, before : 0 .. MaxContacts]

TypeOK == /\ settings \in Deployments
          /\ contacts \in Seq(Contact) /\ Len(contacts) <= MaxContacts
          /\ apps \in [AppIds -> App]
          /\ leads \in [LeadTasks -> LeadTask]

Init == /\ settings \in Deployments
        /\ contacts = <<>>
        /\ apps = [a \in AppIds |-> NoApp]
        /\ leads = [l \in LeadTasks |-> Idle]
-----------------------------------------------------------------------------
\* _ghl_search and the exact comparison of what it returns: a contact has
\* this e-mail or this phone.
Holds(key) == \E i \in 1 .. Len(contacts) : key \in contacts[i].keys

\* lookup_ghl_contact_for_credit_payload: the e-mail is asked for first, then
\* each phone of at least seven digits.
Queries(given) == {i \in DOMAIN given : given[i] \notin Short}

\* Does the CRM know an applicant?
Known(given) == \E i \in Queries(given) : Holds(given[i])

\* Mutant: a search that finds nobody ends the lookup.
FirstSearchDecides(given, todo) ==
    IF Holds(given[Min(todo)]) THEN "found" ELSE "not_found"

\* What one answered search of the lookup leads to.
Verdict(given, todo) ==
    IF Holds(given[Min(todo)]) THEN "found"
    ELSE IF todo = {Min(todo)} THEN "not_found" ELSE "search on"

AddContact(given, before) ==
    /\ Len(contacts) < MaxContacts
    /\ contacts' = Append(contacts, [keys |-> ToSet(given), before |-> before])

BecomeApp(a, r) == apps' = [apps EXCEPT ![a] = r]
BecomeLead(l, s) == leads' = [leads EXCEPT ![l] = s]
-----------------------------------------------------------------------------
\* send_credit_application_webhook is entered, or returns at once.
ToWebhook(r) == IF settings.webhook
                THEN [r EXCEPT !.pc = "webhook", !.attempt = 1]
                ELSE [r EXCEPT !.pc = "done"]

\* The two e-mail functions: do they send anything?
SendsBroker == settings.email /\ settings.broker
SendsFallback == settings.email /\ settings.fallback

\* Mutant: a lookup that failed is taken for one that found nothing.
ErrorMeansNew(r, st) ==
    LET s == [r EXCEPT !.status = st, !.given = <<>>, !.todo = {}] IN
    CASE st = "found" -> ToWebhook(s)
      [] st \in {"not_found", "error"} /\ settings.fallback ->
             [s EXCEPT !.pc = IF SendsFallback THEN "fallback" ELSE "done"]
      [] st = "not_found" /\ ~settings.fallback ->
             [s EXCEPT !.pc = IF SendsBroker THEN "broker" ELSE "done"]
      [] OTHER -> IF SendsBroker THEN [s EXCEPT !.pc = "broker"]
                  ELSE ToWebhook(s)

\* Mutant: without a fallback address an unknown applicant is not announced.
NoFallbackNoMail(r, st) ==
    LET s == [r EXCEPT !.status = st, !.given = <<>>, !.todo = {}] IN
    CASE st = "found" -> ToWebhook(s)
      [] st = "not_found" ->
             [s EXCEPT !.pc = IF SendsFallback THEN "fallback" ELSE "done"]
      [] OTHER -> IF SendsBroker THEN [s EXCEPT !.pc = "broker"]
                  ELSE ToWebhook(s)

\* notify_credit_application_submitted once the lookup has ended with st.
Announce(r, st) ==
    LET s == [r EXCEPT !.status = st, !.given = <<>>, !.todo = {}] IN
    CASE st = "found" -> ToWebhook(s)
      [] st = "not_found" /\ settings.fallback ->
             [s EXCEPT !.pc = IF SendsFallback THEN "fallback" ELSE "done"]
      [] st = "not_found" /\ ~settings.fallback ->
             [s EXCEPT !.pc = IF SendsBroker THEN "broker" ELSE "done"]
      [] OTHER -> IF SendsBroker THEN [s EXCEPT !.pc = "broker"]
                  ELSE ToWebhook(s)

\* apply_credit, apply_credit_public and credit_application_compat: the row is
\* committed, then the lookup begins.  The compat route checks nothing, so an
\* application may come without an e-mail or a phone.
Submit(a, given) ==
    LET r == [NoApp EXCEPT !.given = given,
                           !.known = settings.ghl /\ Known(given)] IN
    /\ apps[a].pc = "none"
    /\ BecomeApp(a, CASE ~settings.ghl -> Announce(r, "not_configured")
                      [] settings.ghl /\ Queries(given) = {} ->
                             Announce(r, "not_found")
                      [] OTHER -> [r EXCEPT !.pc = "search",
                                            !.todo = Queries(given)])
    /\ UNCHANGED <<settings, contacts, leads>>

\* The lookup gets the answer to one of its searches.
SearchAnswered(a) ==
    LET r == apps[a]
        verdict == Verdict(r.given, r.todo)
    IN /\ r.pc = "search"
       /\ BecomeApp(a, IF verdict = "search on"
                       THEN [r EXCEPT !.todo = @ \ {Min(@)}]
                       ELSE Announce(r, verdict))
       /\ UNCHANGED <<settings, contacts, leads>>

\* A search fails: the lookup ends.
SearchFails(a) ==
    /\ apps[a].pc = "search"
    /\ BecomeApp(a, Announce(apps[a], "error"))
    /\ UNCHANGED <<settings, contacts, leads>>

\* send_credit_application_email and ..._ghl_fallback_email: the mail is sent,
\* or the failure is swallowed; the mail may have got through all the same.
\* After the broker's mail the webhook follows unless the lookup found nothing.
Mail(a, ok, got) ==
    LET r == [apps[a] EXCEPT !.told = IF got THEN @ \cup {apps[a].pc} ELSE @,
                             !.failed = @ \/ ~ok]
    IN /\ r.pc \in {"broker", "fallback"}
       /\ ok => got
       /\ BecomeApp(a, IF r.status = "not_found"
                       THEN [r EXCEPT !.pc = "done"] ELSE ToWebhook(r))
       /\ UNCHANGED <<settings, contacts, leads>>

\* Mutant: the loop over the attempts ends one too late.
PostOnceMore(a, ok, got, again) ==
    LET r == [apps[a] EXCEPT !.told = IF got THEN @ \cup {"webhook"} ELSE @]
    IN /\ r.pc = "webhook"
       /\ ok => got
       /\ again => ~ok /\ r.attempt <= MaxAttempts
       /\ BecomeApp(a, IF again
                       THEN [r EXCEPT !.attempt = @ + 1]
                       ELSE [r EXCEPT !.pc = "done", !.failed = @ \/ ~ok])
       /\ UNCHANGED <<settings, contacts, leads>>

\* send_credit_application_webhook, one attempt: answered with a success, or
\* not; the receiver may have got the application all the same.  A failure of
\* HTTP is tried again while attempts are left, any other ends the loop.
Post(a, ok, got, again) ==
    LET r == [apps[a] EXCEPT !.told = IF got THEN @ \cup {"webhook"} ELSE @]
    IN /\ r.pc = "webhook"
       /\ ok => got
       /\ again => ~ok /\ r.attempt < MaxAttempts
       /\ BecomeApp(a, IF again
                       THEN [r EXCEPT !.attempt = @ + 1]
                       ELSE [r EXCEPT !.pc = "done", !.failed = @ \/ ~ok])
       /\ UNCHANGED <<settings, contacts, leads>>

\* The process stops between two calls: nothing remembers that the stored
\* application was not announced.
Crash(a) ==
    /\ apps[a].pc \in {"search"} \cup Channel
    /\ BecomeApp(a, [apps[a] EXCEPT !.pc = "lost"])
    /\ UNCHANGED <<settings, contacts, leads>>
-----------------------------------------------------------------------------
\* process_new_lead_integrations, create_ghl_contact_for_lead: the lookup.
\* A lead always has an e-mail.
BeginLead(l, given) ==
    /\ leads[l] = Idle
    /\ settings.ghl
    /\ BecomeLead(l, [pc |-> "search", lead |-> given,
                      todo |-> Queries(given), before |-> Len(contacts)])
    /\ UNCHANGED <<settings, contacts, apps>>

\* Mutant: a lead is looked up by its e-mail only.
LeadByEmail(l) ==
    LET t == leads[l] IN
    /\ t.pc = "search"
    /\ BecomeLead(l, IF Verdict(t.lead, t.todo) = "found" THEN Idle
                     ELSE [pc |-> "create", lead |-> t.lead,
                           before |-> t.before])
    /\ UNCHANGED <<settings, contacts, apps>>

\* One search of a lead's lookup is answered.
LeadSearchAnswered(l) ==
    LET t == leads[l] IN
    /\ t.pc = "search"
    /\ BecomeLead(l, CASE Verdict(t.lead, t.todo) = "found" -> Idle
                       [] Verdict(t.lead, t.todo) = "not_found" ->
                              [pc |-> "create", lead |-> t.lead,
                               before |-> t.before]
                       [] OTHER -> [t EXCEPT !.todo = @ \ {Min(@)}])
    /\ UNCHANGED <<settings, contacts, apps>>

\* The contact is created, whether or not the answer comes back.
LeadCreates(l) ==
    /\ leads[l].pc = "create"
    /\ AddContact(leads[l].lead, leads[l].before)
    /\ BecomeLead(l, Idle)
    /\ UNCHANGED <<settings, apps>>

\* A call of the task fails, or its process stops: nothing is tried again.
LeadEnds(l) ==
    /\ leads[l] # Idle
    /\ BecomeLead(l, Idle)
    /\ UNCHANGED <<settings, contacts, apps>>

\* Somebody adds a contact in the CRM itself.
StaffAdds(given) ==
    /\ settings.ghl
    /\ AddContact(given, 0)
    /\ UNCHANGED <<settings, apps, leads>>
-----------------------------------------------------------------------------
\* The calls of an announcement: every one has a timeout.
Work(a) == \/ SearchAnswered(a)
           \/ SearchFails(a)
           \/ \E ok, got \in BOOLEAN : Mail(a, ok, got)
           \/ \E ok, got, again \in BOOLEAN : Post(a, ok, got, again)

Next == \/ \E a \in AppIds : \/ \E given \in Applicants : Submit(a, given)
                             \/ Work(a)
                             \/ Crash(a)
        \/ \E l \in LeadTasks : \/ \E given \in Leads : BeginLead(l, given)
                                \/ LeadSearchAnswered(l)
                                \/ LeadCreates(l)
                                \/ LeadEnds(l)
        \/ \E given \in Applicants : StaffAdds(given)

Spec == Init /\ [][Next]_vars

FairSpec == Spec /\ \A a \in AppIds : WF_vars(Work(a))
-----------------------------------------------------------------------------
\* An applicant the CRM knew when he applied is announced to the webhook only
\* (docstring of notify_credit_application_submitted) unless the lookup fails:
\* no broker is mailed about him, whichever of his phones the contact has and
\* whatever contacts are added while the lookup runs.
KnownGoesToWebhook ==
    \A a \in AppIds :
        apps[a].known /\ apps[a].status # "error"
            => apps[a].told \subseteq {"webhook"}

\* "No existing GoHighLevel contact matched applicant email or phone before
\* submit": the fallback mail says so, and it is true, even when searches fail.
FallbackMailIsTrue ==
    \A a \in AppIds : "fallback" \in apps[a].told => ~apps[a].known

\* A lead never makes a second contact of one that was there when its lookup
\* began, neither by e-mail nor by a phone of seven digits, whatever answer of
\* the CRM was lost before (contacts added since are another matter).
NoSecondContact ==
    \A j \in 1 .. Len(contacts) : \A i \in 1 .. contacts[j].before :
        contacts[i].keys \cap contacts[j].keys \subseteq Short

\* Where the webhook and one mail address are configured somebody hears of
\* every stored application, unless its process dies or an announcing call
\* fails for good; a failing lookup does not keep it from being announced.
StoredIsTold ==
    \A a \in AppIds :
        (/\ apps[a].pc # "none"
         /\ settings.webhook /\ settings.email
         /\ settings.broker \/ settings.fallback)
            ~> (\/ apps[a].told # {}
                \/ apps[a].failed
                \/ apps[a].pc = "lost")
=============================================================================
