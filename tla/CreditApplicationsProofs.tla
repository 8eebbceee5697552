---------------------- MODULE CreditApplicationsProofs ----------------------
(***************************************************************************)
(* What CreditApplications guarantees for any number of applications,      *)
(* leads, contacts and attempts, under every setting.  The inductive       *)
(* invariant follows the two lookups: while a known applicant is looked    *)
(* up, a key the CRM holds is still to be asked about, and of the contacts *)
(* that were there when a lead's lookup began, none has a key already      *)
(* asked about.  Both survive the contacts that are added meanwhile.       *)
(* The second half is about the delivery of a lead, module LeadDelivery.   *)
(***************************************************************************)
EXTENDS CreditApplications, LeadDelivery, TLAPS

\* The lookup of a known applicant has yet to ask about a key the CRM holds.
StillFindable(r) == \E i \in r.todo : Holds(r.given[i])

\* What a known applicant's announcement has done: nothing but the webhook.
KnownHeeded(r) ==
    r.known => /\ r.status \in {"found", "error"}
               /\ r.status = "found" => /\ r.pc \in {"webhook", "done", "lost"}
                                        /\ r.told \subseteq {"webhook"}
               /\ r.pc # "fallback" /\ "fallback" \notin r.told
               /\ r.pc = "search" => StillFindable(r)

\* Nobody is told before the lookup has ended.
QuietSoFar(r) ==
    /\ r.pc = "none" => ~r.known
    /\ r.pc \in {"none", "search"} => r.told = {} /\ r.status = "error"

\* Every announcement heeds what was known of its applicant.
AppsHeeded == \A a \in AppIds : KnownHeeded(apps[a]) /\ QuietSoFar(apps[a])

\* Of the contacts that were there when its lookup began, task l has yet to ask
\* about every key of its lead that one of them has.
LookingUp(l) ==
    LET t == leads[l] IN
    t.pc \in {"search", "create"} =>
        /\ t.before <= Len(contacts)
        /\ \A i \in 1 .. t.before, p \in DOMAIN t.lead :
              (/\ t.pc = "create" \/ p \notin t.todo
               /\ t.lead[p] \in contacts[i].keys) => t.lead[p] \in Short

\* So does every task of a lead.
LeadsLookUp == \A l \in LeadTasks : LookingUp(l)

\* The lookup that led to a contact began before it was there.
BeforeIsBefore == \A j \in 1 .. Len(contacts) : contacts[j].before < j

\* The inductive invariant.
IInv == TypeOK /\ AppsHeeded /\ LeadsLookUp /\ BeforeIsBefore /\ NoSecondContact
-----------------------------------------------------------------------------
\* Writing pc leaves the rest of the row.
LEMMA PcWritten ==
    ASSUME NEW r \in App, NEW pc \in {"none", "search", "done", "lost"} \cup Channel
    PROVE  /\ [r EXCEPT !.pc = pc] \in App
           /\ [r EXCEPT !.pc = pc].pc = pc
           /\ [r EXCEPT !.pc = pc].known = r.known
           /\ [r EXCEPT !.pc = pc].status = r.status
           /\ [r EXCEPT !.pc = pc].told = r.told
  BY DEF App

\* Going on to the webhook, or ending, changes nothing that was found or told.
LEMMA ToWebhookApp ==
    ASSUME NEW r \in App
    PROVE  /\ ToWebhook(r) \in App
           /\ ToWebhook(r).pc \in {"webhook", "done"}
           /\ ToWebhook(r).known = r.known
           /\ ToWebhook(r).status = r.status
           /\ ToWebhook(r).told = r.told
<1>1. CASE settings.webhook
  <2>1. PICK s : s = [r EXCEPT !.pc = "webhook", !.attempt = 1] /\ ToWebhook(r) = s
    BY <1>1 DEF ToWebhook
  <2>2. 1 \in 0 .. MaxAttempts
    BY InputsAllowed
  <2>3. "webhook" \in {"none", "search", "done", "lost"} \cup Channel
    BY DEF Channel
  <2>4. s \in App
    BY <2>1, <2>2, <2>3 DEF App
  <2>5. s.pc = "webhook" /\ s.known = r.known /\ s.status = r.status /\ s.told = r.told
    BY <2>1 DEF App
  <2> QED BY <2>1, <2>4, <2>5
<1>2. CASE ~settings.webhook
  BY <1>2, PcWritten DEF ToWebhook
<1> QED BY <1>1, <1>2

\* How the announcement goes on once the lookup has ended with st.
LEMMA AnnounceApp ==
    ASSUME NEW r \in App, NEW st \in LookupStatus
    PROVE  /\ Announce(r, st) \in App
           /\ Announce(r, st).known = r.known
           /\ Announce(r, st).status = st
           /\ Announce(r, st).told = r.told
           /\ Announce(r, st).pc \in {"done"} \cup Channel
           /\ st = "found" => Announce(r, st).pc \in {"webhook", "done"}
           /\ Announce(r, st).pc = "fallback" => st = "not_found"
<1>1. PICK s : s = [r EXCEPT !.status = st, !.given = <<>>, !.todo = {}]
  OBVIOUS
<1>2. /\ s \in App /\ s.pc = r.pc /\ s.known = r.known /\ s.told = r.told
      /\ s.status = st
  BY <1>1 DEF App
<1>3. CASE st = "found"
  <2>1. Announce(r, st) = ToWebhook(s)
    BY <1>1, <1>3 DEF Announce
  <2> QED BY <1>2, <1>3, <2>1, ToWebhookApp DEF Channel
<1>4. CASE st = "not_found"
  <2>1. PICK pc \in {"fallback", "broker", "done"} : Announce(r, st) = [s EXCEPT !.pc = pc]
    BY <1>1, <1>4 DEF Announce
  <2>2. pc \in {"none", "search", "done", "lost"} \cup Channel
    BY DEF Channel
  <2>3. PICK n : n = [s EXCEPT !.pc = pc] /\ Announce(r, st) = n
    BY <2>1
  <2>4. n \in App /\ n.pc = pc /\ n.known = s.known /\ n.status = s.status
        /\ n.told = s.told
    BY <1>2, <2>2, <2>3 DEF App
  <2> QED BY <1>2, <1>4, <2>3, <2>4 DEF Channel
<1>5. CASE st \notin {"found", "not_found"}
  <2>1. PICK n : /\ n \in {[s EXCEPT !.pc = "broker"], ToWebhook(s)}
                 /\ Announce(r, st) = n
    BY <1>1, <1>5 DEF Announce
  <2>2. "broker" \in {"none", "search", "done", "lost"} \cup Channel
    BY DEF Channel
  <2>3. /\ n \in App /\ n.pc \in {"webhook", "done", "broker"}
        /\ n.known = s.known /\ n.status = s.status /\ n.told = s.told
    <3>1. CASE n = [s EXCEPT !.pc = "broker"]
      BY <1>2, <2>2, <3>1 DEF App
    <3>2. CASE n = ToWebhook(s)
      BY <1>2, <3>2, ToWebhookApp
    <3> QED BY <2>1, <3>1, <3>2
  <2> QED BY <1>2, <1>5, <2>1, <2>3 DEF Channel
<1> QED BY <1>3, <1>4, <1>5
-----------------------------------------------------------------------------
\* An announcement that moves to n, while nothing else changes.
LEMMA AppMoves ==
    ASSUME TypeOK, AppsHeeded, NEW a \in AppIds, NEW n \in App, BecomeApp(a, n),
           KnownHeeded(n), QuietSoFar(n), UNCHANGED <<settings, contacts, leads>>
    PROVE  TypeOK' /\ AppsHeeded'
<1>1. apps'[a] = n /\ \A b \in AppIds \ {a} : apps'[b] = apps[b]
  BY DEF BecomeApp, TypeOK
<1>2. TypeOK'
  BY DEF BecomeApp, TypeOK
<1>3. \A b \in AppIds : apps'[b] \in {n, apps[b]}
  BY <1>1
<1>4. AppsHeeded'
  BY <1>3 DEF AppsHeeded, KnownHeeded, QuietSoFar, StillFindable, Holds
<1> QED BY <1>2, <1>4

\* The end of a lookup: a known applicant was found, or the lookup failed.
LEMMA LookupEnds ==
    ASSUME TypeOK, AppsHeeded, NEW a \in AppIds, NEW r \in App,
           NEW st \in LookupStatus, r.told = {}, BecomeApp(a, Announce(r, st)),
           r.known => st \in {"found", "error"},
           UNCHANGED <<settings, contacts, leads>>
    PROVE  TypeOK' /\ AppsHeeded'
<1>1. PICK n : n = Announce(r, st)
  OBVIOUS
<1>2. n \in App /\ KnownHeeded(n) /\ QuietSoFar(n)
  BY <1>1, AnnounceApp DEF KnownHeeded, QuietSoFar, Channel
<1> QED BY <1>1, <1>2, AppMoves

\* A new application: a lookup that cannot begin says nothing of anybody known.
LEMMA SubmitStep ==
    ASSUME TypeOK, AppsHeeded, NEW a \in AppIds, NEW given \in Applicants,
           Submit(a, given)
    PROVE  TypeOK' /\ AppsHeeded'
<1>1. PICK r : r = [NoApp EXCEPT !.given = given,
                                 !.known = settings.ghl /\ Known(given)]
  OBVIOUS
<1>2. settings.ghl \in BOOLEAN
  BY InputsAllowed DEF TypeOK, Deployment
<1>3. NoApp \in App
  BY InputsAllowed DEF NoApp, App, LookupStatus
<1>4. /\ r \in App /\ r.given = given /\ r.told = {} /\ r.status = "error"
      /\ r.known <=> settings.ghl /\ Known(given)
  <2>1. PICK k \in BOOLEAN : k = (settings.ghl /\ Known(given))
    BY <1>2
  <2>2. r = [NoApp EXCEPT !.given = given, !.known = k]
    BY <1>1, <2>1
  <2> QED BY <1>3, <2>1, <2>2 DEF App, NoApp
<1>5. CASE ~settings.ghl
  <2>1. BecomeApp(a, Announce(r, "not_configured"))
    BY <1>1, <1>5 DEF Submit
  <2> QED BY <1>4, <1>5, <2>1, LookupEnds DEF Submit, LookupStatus
<1>6. CASE settings.ghl /\ Queries(given) = {}
  <2>1. BecomeApp(a, Announce(r, "not_found"))
    BY <1>1, <1>6 DEF Submit
  <2>2. ~r.known
    BY <1>4, <1>6 DEF Known
  <2> QED BY <1>4, <2>1, <2>2, LookupEnds DEF Submit, LookupStatus
<1>7. CASE settings.ghl /\ Queries(given) # {}
  <2>1. PICK n : n = [r EXCEPT !.pc = "search", !.todo = Queries(given)]
    OBVIOUS
  <2>2. BecomeApp(a, n)
    BY <1>1, <1>7, <2>1 DEF Submit
  <2>3. Queries(given) \in SUBSET Nat
    BY InputsAllowed DEF Queries
  <2>4. n \in App
    BY <1>4, <2>1, <2>3 DEF App
  <2>5. /\ n.pc = "search" /\ n.todo = Queries(given) /\ n.given = given
        /\ n.known = r.known /\ n.told = {} /\ n.status = "error"
    BY <1>4, <2>1 DEF App
  <2>6. KnownHeeded(n) /\ QuietSoFar(n)
    BY <1>4, <2>5 DEF KnownHeeded, QuietSoFar, StillFindable, Known
  <2> QED BY <2>2, <2>4, <2>6, AppMoves DEF Submit
<1> QED BY <1>2, <1>5, <1>6, <1>7

\* A search that finds nothing leaves a key of a known applicant to ask about.
LEMMA SearchStep ==
    ASSUME TypeOK, AppsHeeded, NEW a \in AppIds, SearchAnswered(a)
    PROVE  TypeOK' /\ AppsHeeded'
<1>1. PICK r \in App : r = apps[a]
  BY DEF TypeOK
<1>2. PICK m : m = Min(r.todo)
  OBVIOUS
<1>3. /\ r.pc = "search" /\ r.told = {} /\ r.status = "error"
      /\ r.known => StillFindable(r)
  BY <1>1 DEF SearchAnswered, AppsHeeded, KnownHeeded, QuietSoFar
<1>4. CASE Holds(r.given[m])
  <2>1. BecomeApp(a, Announce(r, "found"))
    BY <1>1, <1>2, <1>4 DEF SearchAnswered, Verdict
  <2> QED BY <1>3, <2>1, LookupEnds DEF SearchAnswered, LookupStatus
<1>5. CASE ~Holds(r.given[m]) /\ r.todo = {m}
  <2>1. BecomeApp(a, Announce(r, "not_found"))
    BY <1>1, <1>2, <1>5 DEF SearchAnswered, Verdict
  <2>2. ~r.known
    BY <1>3, <1>5 DEF StillFindable
  <2> QED BY <1>3, <2>1, <2>2, LookupEnds DEF SearchAnswered, LookupStatus
<1>6. CASE ~Holds(r.given[m]) /\ r.todo # {m}
  <2>1. PICK n : n = [r EXCEPT !.todo = r.todo \ {m}]
    OBVIOUS
  <2>2. BecomeApp(a, n)
    BY <1>1, <1>2, <1>6, <2>1 DEF SearchAnswered, Verdict
  <2>3. /\ n \in App /\ n.pc = r.pc /\ n.todo = r.todo \ {m} /\ n.given = r.given
        /\ n.known = r.known /\ n.told = r.told /\ n.status = r.status
    BY <2>1 DEF App
  <2>4. KnownHeeded(n) /\ QuietSoFar(n)
    BY <1>3, <1>6, <2>3 DEF KnownHeeded, QuietSoFar, StillFindable
  <2> QED BY <2>2, <2>3, <2>4, AppMoves DEF SearchAnswered
<1> QED BY <1>4, <1>5, <1>6

\* A failed lookup is not one that found nothing.
LEMMA FailStep ==
    ASSUME TypeOK, AppsHeeded, NEW a \in AppIds, SearchFails(a)
    PROVE  TypeOK' /\ AppsHeeded'
<1>1. apps[a] \in App /\ apps[a].told = {}
  BY DEF SearchFails, TypeOK, AppsHeeded, QuietSoFar
<1> QED BY <1>1, LookupEnds DEF SearchFails, LookupStatus

\* A crash tells nobody.
LEMMA CrashStep ==
    ASSUME TypeOK, AppsHeeded, NEW a \in AppIds, Crash(a)
    PROVE  TypeOK' /\ AppsHeeded'
<1>1. PICK n : n = [apps[a] EXCEPT !.pc = "lost"]
  OBVIOUS
<1>2. /\ n \in App /\ n.pc = "lost" /\ n.known = apps[a].known
      /\ n.told = apps[a].told /\ n.status = apps[a].status
  BY <1>1 DEF TypeOK, App
<1>3. KnownHeeded(n) /\ QuietSoFar(n)
  BY <1>2 DEF AppsHeeded, KnownHeeded, QuietSoFar
<1> QED BY <1>1, <1>2, <1>3, AppMoves DEF Crash

\* A mail leaves a row that is as good for what follows.
LEMMA MailStep ==
    ASSUME TypeOK, AppsHeeded, NEW a \in AppIds, NEW ok \in BOOLEAN,
           NEW got \in BOOLEAN, Mail(a, ok, got)
    PROVE  TypeOK' /\ AppsHeeded'
<1>1. PICK q \in App : q = apps[a]
  BY DEF TypeOK
<1>2. /\ q.pc \in {"broker", "fallback"} /\ KnownHeeded(q)
      /\ q.known => q.pc = "broker" /\ q.status = "error"
  <2>1. apps[a].pc \in {"broker", "fallback"}
    <3>1. PICK told, failed :
              [q EXCEPT !.told = told, !.failed = failed].pc \in {"broker", "fallback"}
      BY <1>1 DEF Mail
    <3> QED BY <1>1, <3>1 DEF App
  <2> QED BY <1>1, <2>1 DEF AppsHeeded, KnownHeeded
<1>3. PICK told : told = IF got THEN q.told \cup {q.pc} ELSE q.told
  OBVIOUS
<1>4. PICK failed \in BOOLEAN : failed = (q.failed \/ ~ok)
  BY DEF App
<1>5. PICK r : r = [q EXCEPT !.told = told, !.failed = failed]
  OBVIOUS
<1>6. told \in SUBSET Channel /\ (q.known => "fallback" \notin told)
  BY <1>2, <1>3 DEF App, Channel, KnownHeeded
<1>7. /\ r \in App /\ r.pc = q.pc /\ r.known = q.known /\ r.status = q.status
      /\ r.told = told
  BY <1>4, <1>5, <1>6 DEF App
<1>8. /\ BecomeApp(a, IF r.status = "not_found" THEN [r EXCEPT !.pc = "done"]
                                                ELSE ToWebhook(r))
      /\ UNCHANGED <<settings, contacts, leads>>
  BY <1>1, <1>3, <1>4, <1>5 DEF Mail
<1>9. PICK n : n = IF r.status = "not_found" THEN [r EXCEPT !.pc = "done"]
                                             ELSE ToWebhook(r)
  OBVIOUS
<1>10. /\ n \in App /\ n.pc \in {"webhook", "done"} /\ n.known = r.known
       /\ n.status = r.status /\ n.told = r.told
  <2>1. CASE r.status = "not_found"
    BY <1>7, <1>9, <2>1 DEF App
  <2>2. CASE r.status # "not_found"
    BY <1>7, <1>9, <2>2, ToWebhookApp
  <2> QED BY <2>1, <2>2
<1>11. KnownHeeded(n) /\ QuietSoFar(n)
  BY <1>2, <1>6, <1>7, <1>10 DEF KnownHeeded, QuietSoFar
<1> QED BY <1>8, <1>9, <1>10, <1>11, AppMoves

\* So does a post to the webhook, which anybody may hear of.
LEMMA PostStep ==
    ASSUME TypeOK, AppsHeeded, NEW a \in AppIds, NEW ok \in BOOLEAN,
           NEW got \in BOOLEAN, NEW again \in BOOLEAN, Post(a, ok, got, again)
    PROVE  TypeOK' /\ AppsHeeded'
<1>1. PICK q \in App : q = apps[a]
  BY DEF TypeOK
<1>2. PICK told : told = IF got THEN q.told \cup {"webhook"} ELSE q.told
  OBVIOUS
<1>3. PICK r : r = [q EXCEPT !.told = told]
  OBVIOUS
<1>4. told \in SUBSET Channel /\ told \subseteq q.told \cup {"webhook"}
  BY <1>2 DEF App, Channel
<1>5. /\ r \in App /\ r.pc = q.pc /\ r.known = q.known /\ r.status = q.status
      /\ r.told = told /\ r.attempt = q.attempt /\ r.failed = q.failed
  BY <1>3, <1>4 DEF App
<1>6. /\ r.pc = "webhook" /\ UNCHANGED <<settings, contacts, leads>>
      /\ again => r.attempt < MaxAttempts
      /\ BecomeApp(a, IF again
                      THEN [r EXCEPT !.attempt = @ + 1]
                      ELSE [r EXCEPT !.pc = "done", !.failed = @ \/ ~ok])
  BY <1>1, <1>2, <1>3 DEF Post
<1>7. PICK n : n = IF again
                   THEN [r EXCEPT !.attempt = @ + 1]
                   ELSE [r EXCEPT !.pc = "done", !.failed = @ \/ ~ok]
  OBVIOUS
<1>8. /\ n \in App /\ n.pc \in {"webhook", "done"} /\ n.known = r.known
      /\ n.status = r.status /\ n.told = r.told
  <2>1. CASE again
    <3>1. n = [r EXCEPT !.attempt = r.attempt + 1]
      BY <1>7, <2>1
    <3>2. r.attempt + 1 \in 0 .. MaxAttempts
      BY <1>5, <1>6, <2>1, InputsAllowed DEF App
    <3> QED BY <1>5, <1>6, <3>1, <3>2 DEF App
  <2>2. CASE ~again
    <3>1. PICK failed \in BOOLEAN : failed = (r.failed \/ ~ok)
      BY <1>5 DEF App
    <3>2. n = [r EXCEPT !.pc = "done", !.failed = failed]
      BY <1>7, <2>2, <3>1
    <3> QED BY <1>5, <3>1, <3>2 DEF App
  <2> QED BY <2>1, <2>2
<1>9. KnownHeeded(q)
  BY <1>1 DEF AppsHeeded
<1>10. KnownHeeded(n) /\ QuietSoFar(n)
  BY <1>4, <1>5, <1>6, <1>8, <1>9 DEF KnownHeeded, QuietSoFar
<1> QED BY <1>6, <1>7, <1>8, <1>10, AppMoves
-----------------------------------------------------------------------------
\* What the task of a lead holds.
LEMMA LeadShape ==
    ASSUME IInv, NEW l \in LeadTasks
    PROVE  /\ leads[l].pc \in {"idle", "search", "create"}
           /\ leads[l].pc = "idle" => leads[l] = Idle
           /\ leads[l].pc \in {"search", "create"} =>
                 /\ leads[l].lead \in Leads /\ leads[l].lead \in Seq(Keys)
                 /\ leads[l].before \in 0 .. MaxContacts
                 /\ leads[l].before <= Len(contacts)
           /\ leads[l].pc = "search" =>
                 leads[l] \in [pc : {"search"}, lead : Leads, todo : SUBSET Nat,
                               before : 0 .. MaxContacts]
<1>1. leads[l] \in LeadTask /\ LookingUp(l)
  BY DEF IInv, TypeOK, LeadsLookUp
<1> QED BY <1>1, InputsAllowed DEF LeadTask, Idle, LookingUp

\* The contacts only grow: what the announcements and the lookups of leads rely
\* on stays true when one is added.
LEMMA ContactAdded ==
    ASSUME IInv, NEW given \in Seq(Keys), NEW before \in 0 .. MaxContacts,
           AddContact(given, before), before <= Len(contacts), UNCHANGED apps,
           \A i \in 1 .. before :
               contacts[i].keys \cap ToSet(given) \subseteq Short
    PROVE  /\ contacts' \in Seq(Contact) /\ Len(contacts') <= MaxContacts
           /\ AppsHeeded' /\ BeforeIsBefore' /\ NoSecondContact'
           /\ \A l \in LeadTasks : leads'[l] = leads[l] => LookingUp(l)'
<1>1. PICK c : c = [keys |-> ToSet(given), before |-> before]
  OBVIOUS
<1>2. c \in Contact /\ c.keys = ToSet(given) /\ c.before = before
  BY <1>1 DEF Contact, ToSet
<1>3. /\ contacts \in Seq(Contact) /\ contacts' = Append(contacts, c)
      /\ Len(contacts) < MaxContacts /\ MaxContacts \in Nat
  BY <1>1, InputsAllowed DEF AddContact, IInv, TypeOK
<1>4. /\ contacts' \in Seq(Contact) /\ Len(contacts') = Len(contacts) + 1
      /\ Len(contacts') <= MaxContacts
      /\ \A i \in 1 .. Len(contacts) : contacts'[i] = contacts[i]
      /\ contacts'[Len(contacts) + 1] = c
  BY <1>2, <1>3
<1>5. \A k : Holds(k) => Holds(k)'
  BY <1>3, <1>4 DEF Holds
<1>6. AppsHeeded'
  BY <1>5 DEF IInv, AppsHeeded, KnownHeeded, QuietSoFar, StillFindable
<1>7. BeforeIsBefore'
  BY <1>2, <1>3, <1>4 DEF IInv, BeforeIsBefore
<1>8. NoSecondContact'
  <2> SUFFICES ASSUME NEW j \in 1 .. Len(contacts'), NEW i \in 1 .. contacts'[j].before
               PROVE  contacts'[i].keys \cap contacts'[j].keys \subseteq Short
    BY DEF NoSecondContact
  <2>1. CASE j \in 1 .. Len(contacts)
    <3>1. contacts'[j] = contacts[j] /\ contacts[j].before < j
      BY <1>4, <2>1 DEF IInv, BeforeIsBefore
    <3>2. contacts[j] \in Contact
      BY <1>3, <2>1
    <3>3. contacts[j].before \in Nat /\ Len(contacts) \in Nat
      BY <1>3, <3>2 DEF Contact
    <3>4. i \in 1 .. Len(contacts) /\ i \in 1 .. contacts[j].before
      BY <2>1, <3>1, <3>3
    <3> QED BY <1>4, <2>1, <3>1, <3>4 DEF IInv, NoSecondContact
  <2>2. CASE j = Len(contacts) + 1
    <3>1. contacts'[j] = c /\ i \in 1 .. before
      BY <1>2, <1>4, <2>2
    <3>2. before \in Nat /\ Len(contacts) \in Nat
      BY <1>3
    <3>3. i \in 1 .. Len(contacts)
      BY <3>1, <3>2
    <3>4. contacts'[i] = contacts[i]
      BY <1>4, <3>3
    <3> QED BY <1>2, <3>1, <3>4
  <2>3. Len(contacts) \in Nat
    BY <1>3
  <2> QED BY <1>4, <2>1, <2>2, <2>3
<1>9. ASSUME NEW l \in LeadTasks, leads'[l] = leads[l] PROVE LookingUp(l)'
  <2> SUFFICES ASSUME leads[l].pc \in {"search", "create"} PROVE LookingUp(l)'
    BY <1>9 DEF LookingUp
  <2>1. leads[l].before \in Nat /\ leads[l].before <= Len(contacts) /\ LookingUp(l)
    BY LeadShape DEF IInv, LeadsLookUp
  <2>2. Len(contacts) \in Nat
    BY <1>3
  <2>3. \A i \in 1 .. leads[l].before : contacts'[i] = contacts[i]
    BY <1>4, <2>1, <2>2
  <2> QED BY <1>4, <1>9, <2>1, <2>2, <2>3 DEF LookingUp
<1> QED BY <1>4, <1>6, <1>7, <1>8, <1>9

\* A lead's task moves to s, while nothing else changes.
LEMMA LeadMoves ==
    ASSUME IInv, NEW l \in LeadTasks, NEW s \in LeadTask, BecomeLead(l, s),
           LookingUp(l)', UNCHANGED <<settings, contacts, apps>>
    PROVE  IInv'
<1>1. /\ leads' \in [LeadTasks -> LeadTask]
      /\ \A m \in LeadTasks \ {l} : leads'[m] = leads[m]
  BY DEF BecomeLead, IInv, TypeOK
<1>2. TypeOK'
  BY <1>1 DEF IInv, TypeOK
<1>3. AppsHeeded' /\ BeforeIsBefore' /\ NoSecondContact'
  BY DEF IInv, AppsHeeded, KnownHeeded, QuietSoFar, StillFindable, Holds,
         BeforeIsBefore, NoSecondContact
<1>4. LeadsLookUp'
  BY <1>1 DEF IInv, LeadsLookUp, LookingUp
<1> QED BY <1>2, <1>3, <1>4 DEF IInv

\* The keys that are not asked about are too short to count.
LEMMA BeginLeadStep ==
    ASSUME IInv, NEW l \in LeadTasks, NEW given \in Leads, BeginLead(l, given)
    PROVE  IInv'
<1>1. PICK s : s = [pc |-> "search", lead |-> given, todo |-> Queries(given),
                    before |-> Len(contacts)]
  OBVIOUS
<1>2. given \in Seq(Keys) /\ Len(contacts) \in 0 .. MaxContacts
  BY InputsAllowed DEF IInv, TypeOK
<1>3. s \in LeadTask
  BY <1>1, <1>2 DEF LeadTask, Queries
<1>4. leads'[l] = s /\ BecomeLead(l, s) /\ UNCHANGED <<settings, contacts, apps>>
  BY <1>1 DEF BeginLead, BecomeLead, IInv, TypeOK
<1>5. LookingUp(l)'
  BY <1>1, <1>2, <1>4 DEF LookingUp, Queries
<1> QED BY <1>3, <1>4, <1>5, LeadMoves

\* A task that ends has nothing left to find.
LEMMA LeadEndStep ==
    ASSUME IInv, NEW l \in LeadTasks, BecomeLead(l, Idle),
           UNCHANGED <<settings, contacts, apps>>
    PROVE  IInv'
<1>1. leads'[l].pc = "idle"
  BY DEF BecomeLead, IInv, TypeOK, Idle
<1> QED BY <1>1, LeadMoves DEF LeadTask, LookingUp

\* Nobody holds a key whose search found nobody.
LEMMA LeadSearchStep ==
    ASSUME IInv, NEW l \in LeadTasks, LeadSearchAnswered(l)
    PROVE  IInv'
<1>1. PICK t : t = leads[l]
  OBVIOUS
<1>2. PICK m : m = Min(t.todo)
  OBVIOUS
<1>3. /\ t.pc = "search" /\ t.lead \in Leads /\ t.before \in 0 .. MaxContacts
      /\ t.before <= Len(contacts)
      /\ t \in [pc : {"search"}, lead : Leads, todo : SUBSET Nat,
                before : 0 .. MaxContacts]
      /\ UNCHANGED <<settings, contacts, apps>>
  BY <1>1, LeadShape DEF LeadSearchAnswered
<1>4. \A i \in 1 .. t.before, p \in DOMAIN t.lead :
          p \notin t.todo /\ t.lead[p] \in contacts[i].keys => t.lead[p] \in Short
  BY <1>1, <1>3 DEF IInv, LeadsLookUp, LookingUp
<1>5. CASE Holds(t.lead[m])
  <2>1. BecomeLead(l, Idle)
    BY <1>1, <1>2, <1>5 DEF LeadSearchAnswered, Verdict
  <2> QED BY <1>3, <2>1, LeadEndStep
<1>6. CASE ~Holds(t.lead[m])
  <2>1. \A i \in 1 .. t.before : t.lead[m] \notin contacts[i].keys
    BY <1>3, <1>6 DEF Holds, IInv, TypeOK
  <2>2. CASE t.todo = {m}
    <3>1. PICK s : s = [pc |-> "create", lead |-> t.lead, before |-> t.before]
      OBVIOUS
    <3>2. BecomeLead(l, s)
      BY <1>1, <1>2, <1>6, <2>2, <3>1 DEF LeadSearchAnswered, Verdict
    <3>3. s \in LeadTask
      BY <1>3, <3>1 DEF LeadTask
    <3>4. leads'[l] = s
      BY <3>2 DEF BecomeLead, IInv, TypeOK
    <3>5. LookingUp(l)'
      BY <1>3, <1>4, <2>1, <2>2, <3>1, <3>4 DEF LookingUp
    <3> QED BY <1>3, <3>2, <3>3, <3>5, LeadMoves
  <2>3. CASE t.todo # {m}
    <3>1. PICK s : s = [t EXCEPT !.todo = t.todo \ {m}]
      OBVIOUS
    <3>2. BecomeLead(l, s)
      BY <1>1, <1>2, <1>6, <2>3, <3>1 DEF LeadSearchAnswered, Verdict
    <3>3. s = [pc |-> "search", lead |-> t.lead, todo |-> t.todo \ {m},
               before |-> t.before]
      BY <1>3, <3>1
    <3>4. s \in LeadTask
      BY <1>3, <3>3 DEF LeadTask
    <3>5. leads'[l] = s
      BY <3>2 DEF BecomeLead, IInv, TypeOK
    <3>6. LookingUp(l)'
      BY <1>3, <1>4, <2>1, <3>3, <3>5 DEF LookingUp
    <3> QED BY <1>3, <3>2, <3>4, <3>6, LeadMoves
  <2> QED BY <2>2, <2>3
<1> QED BY <1>5, <1>6

\* The contact made shares no key with those there when the lookup began.
LEMMA LeadCreateStep ==
    ASSUME IInv, NEW l \in LeadTasks, LeadCreates(l)
    PROVE  IInv'
<1>1. PICK t : t = leads[l]
  OBVIOUS
<1>2. /\ t.pc = "create" /\ t.lead \in Seq(Keys) /\ t.before \in 0 .. MaxContacts
      /\ t.before <= Len(contacts)
  BY <1>1, LeadShape DEF LeadCreates
<1>3. \A i \in 1 .. t.before : contacts[i].keys \cap ToSet(t.lead) \subseteq Short
  BY <1>1, <1>2 DEF IInv, LeadsLookUp, LookingUp, ToSet
<1>4. /\ AddContact(t.lead, t.before) /\ BecomeLead(l, Idle)
      /\ UNCHANGED <<settings, apps>>
  BY <1>1 DEF LeadCreates
<1>5. /\ contacts' \in Seq(Contact) /\ Len(contacts') <= MaxContacts
      /\ AppsHeeded' /\ BeforeIsBefore' /\ NoSecondContact'
      /\ \A m \in LeadTasks : leads'[m] = leads[m] => LookingUp(m)'
  BY <1>2, <1>3, <1>4, ContactAdded
<1>6. /\ leads'[l] = Idle /\ leads' \in [LeadTasks -> LeadTask]
      /\ \A m \in LeadTasks \ {l} : leads'[m] = leads[m]
  BY <1>4 DEF BecomeLead, IInv, TypeOK, LeadTask
<1>7. LeadsLookUp'
  BY <1>5, <1>6 DEF LeadsLookUp, LookingUp, Idle
<1>8. TypeOK'
  BY <1>4, <1>5, <1>6 DEF IInv, TypeOK
<1> QED BY <1>5, <1>7, <1>8 DEF IInv

\* A contact made in the CRM itself is nobody's second.
LEMMA StaffStep ==
    ASSUME IInv, NEW given \in Applicants, StaffAdds(given)
    PROVE  IInv'
<1>1. /\ given \in Seq(Keys) /\ 0 \in 0 .. MaxContacts /\ 0 <= Len(contacts)
      /\ 1 .. 0 = {}
  BY InputsAllowed DEF IInv, TypeOK
<1>2. AddContact(given, 0) /\ UNCHANGED <<settings, apps, leads>>
  BY DEF StaffAdds
<1>3. /\ contacts' \in Seq(Contact) /\ Len(contacts') <= MaxContacts
      /\ AppsHeeded' /\ BeforeIsBefore' /\ NoSecondContact'
      /\ \A l \in LeadTasks : leads'[l] = leads[l] => LookingUp(l)'
  BY <1>1, <1>2, ContactAdded
<1>4. LeadsLookUp' /\ TypeOK'
  BY <1>2, <1>3 DEF LeadsLookUp, IInv, TypeOK
<1> QED BY <1>3, <1>4 DEF IInv
-----------------------------------------------------------------------------
\* The initial states satisfy the invariant.
LEMMA InitIInv == Init => IInv
<1> SUFFICES ASSUME Init PROVE IInv
  OBVIOUS
<1>1. NoApp \in App
  BY InputsAllowed DEF NoApp, App, LookupStatus
<1>2. TypeOK
  BY <1>1, InputsAllowed DEF Init, TypeOK, LeadTask
<1>3. AppsHeeded
  BY DEF Init, AppsHeeded, KnownHeeded, QuietSoFar, NoApp
<1>4. LeadsLookUp
  BY DEF Init, LeadsLookUp, LookingUp, Idle
<1>5. BeforeIsBefore /\ NoSecondContact
  BY DEF Init, BeforeIsBefore, NoSecondContact
<1> QED BY <1>2, <1>3, <1>4, <1>5 DEF IInv

\* Every step keeps the invariant.
LEMMA StepIInv ==
    ASSUME IInv, [Next]_vars
    PROVE  IInv'
<1>1. ASSUME TypeOK', AppsHeeded', UNCHANGED <<settings, contacts, leads>>
      PROVE  IInv'
  BY <1>1 DEF IInv, LeadsLookUp, LookingUp, BeforeIsBefore, NoSecondContact
<1>2. ASSUME NEW a \in AppIds,
             (\E given \in Applicants : Submit(a, given)) \/ Work(a) \/ Crash(a)
      PROVE  IInv'
  <2>1. TypeOK' /\ AppsHeeded'
    BY <1>2, SubmitStep, SearchStep, FailStep, MailStep, PostStep, CrashStep
       DEF Work, IInv
  <2>2. UNCHANGED <<settings, contacts, leads>>
    BY <1>2 DEF Submit, Work, SearchAnswered, SearchFails, Mail, Post, Crash
  <2> QED BY <1>1, <2>1, <2>2
<1>3. ASSUME NEW l \in LeadTasks,
             \/ \E given \in Leads : BeginLead(l, given)
             \/ LeadSearchAnswered(l) \/ LeadCreates(l) \/ LeadEnds(l)
      PROVE  IInv'
  BY <1>3, BeginLeadStep, LeadSearchStep, LeadCreateStep, LeadEndStep DEF LeadEnds
<1>4. CASE \E given \in Applicants : StaffAdds(given)
  BY <1>4, StaffStep
<1>5. CASE UNCHANGED vars
  BY <1>5 DEF vars, IInv, TypeOK, AppsHeeded, KnownHeeded, QuietSoFar, StillFindable,
              Holds, LeadsLookUp, LookingUp, BeforeIsBefore, NoSecondContact
<1> QED BY <1>2, <1>3, <1>4, <1>5 DEF Next
-----------------------------------------------------------------------------
\* The inductive invariant holds in every reachable state.
THEOREM Invariance == Spec => []IInv
  BY InitIInv, StepIInv, PTL DEF Spec

\* Rows, tasks and contacts have their types; the attempts and the contacts
\* stay within their bounds.
THEOREM TypeCorrect == Spec => []TypeOK
  BY Invariance, PTL DEF IInv

\* An applicant who was a contact when he applied is announced to the webhook
\* only, unless a search fails: no order of searches and no contact added during
\* the lookup sends his application to a broker.
THEOREM KnownHearNoBroker == Spec => []KnownGoesToWebhook
<1>1. IInv => KnownGoesToWebhook
  BY DEF IInv, AppsHeeded, KnownHeeded, KnownGoesToWebhook
<1> QED BY <1>1, Invariance, PTL

\* The fallback mail, which says no contact matched before the application, is
\* sent of no applicant who was one.
THEOREM FallbackMailTrue == Spec => []FallbackMailIsTrue
<1>1. IInv => FallbackMailIsTrue
  BY DEF IInv, AppsHeeded, KnownHeeded, FallbackMailIsTrue
<1> QED BY <1>1, Invariance, PTL

\* A lead makes no second contact of one that was there when its lookup began.
THEOREM OneContactEach == Spec => []NoSecondContact
  BY Invariance, PTL DEF IInv
-----------------------------------------------------------------------------
(***************************************************************************)
(* The task that makes a new lead's contact goes on to deliver the lead    *)
(* (module LeadDelivery): what that guarantees for any number of           *)
(* overlapping tasks and of attempts.  The inductive invariant says,       *)
(* besides what the properties say, who will settle a pending row          *)
(* (Settles) and what the reports under way imply (ReportsHold).           *)
(***************************************************************************)

\* Task t will still take the row out of "pending": it has yet to read the
\* row for its last report, or it read a status it will write over.
Settles(t) ==
    \/ tasks[t].pc \in {"read", "post"}
    \/ /\ tasks[t].pc = "write"
       /\ tasks[t].report = "pending" \/ tasks[t].report # tasks[t].seen.status

\* A pending row has somebody to settle it.
SomeoneSettles ==
    (~dropped /\ row # Absent /\ row.status = "pending")
        => \E t \in Tasks : Settles(t)

\* A task reports "sent" only once the receiver got the lead.
ReportsHold ==
    \A t \in Tasks : tasks[t].pc \in {"read", "write"} /\ tasks[t].report = "sent"
                         => reached

\* Only the tasks of a stored lead are under way.
TasksOfARow == \A t \in Tasks : tasks[t] # Free => row # Absent

\* An attempt has been counted once a task has begun one, and stays counted.
Counted ==
    ~dropped => \A t \in Tasks :
        /\ \/ tasks[t].pc = "post"
           \/ tasks[t].pc \in {"read", "write"} /\ tasks[t].report # "pending"
           => row.attempts > 0
        /\ tasks[t].pc = "write" /\ tasks[t].seen.attempts > 0 => row.attempts > 0

\* The inductive invariant of a delivery.
DeliveryIInv ==
    /\ DeliveryTypeOK
    /\ TasksOfARow
    /\ ReportsHold
    /\ SentWasReceived
    /\ SomeoneSettles
    /\ Counted
    /\ SettledWasAttempted
-----------------------------------------------------------------------------
\* The states of a task are of disjoint shapes, told apart by pc.
LEMMA TaskShapes ==
    ASSUME NEW t \in Tasks, DeliveryTypeOK
    PROVE  /\ tasks[t] \in TaskState
           /\ tasks[t].pc \in {"idle", "retry", "read", "write", "post"}
           /\ tasks[t] = Free <=> tasks[t].pc = "idle"
           /\ tasks[t].pc = "retry" => tasks[t].seen \in Row
           /\ tasks[t].pc \in {"read", "write", "post"}
              => tasks[t].n \in 1 .. LeadAttempts
           /\ tasks[t].pc \in {"read", "write"} => tasks[t].report \in Report
           /\ tasks[t].pc = "write" => tasks[t].seen \in Row
  BY DEF DeliveryTypeOK, TaskState, Free

\* The initial states satisfy the invariant.
LEMMA DeliveryStarts == DeliveryInit => DeliveryIInv
<1> SUFFICES ASSUME DeliveryInit PROVE DeliveryIInv
  OBVIOUS
<1>1. DeliveryTypeOK
  BY DEF DeliveryInit, DeliveryTypeOK, TaskState
<1>2. \A t \in Tasks : tasks[t].pc = "idle"
  BY DEF DeliveryInit, Free
<1> QED BY <1>1, <1>2 DEF DeliveryInit, DeliveryIInv, TasksOfARow, ReportsHold,
                          SentWasReceived,
                          SomeoneSettles, Counted, SettledWasAttempted

\* An absent row is not a row, and a row's columns have their types.
LEMMA RowShape ==
    ASSUME NEW r \in Row
    PROVE  /\ r # Absent
           /\ r.status \in Status
           /\ r.attempts \in 0 .. LeadAttempts
           /\ r.delivered \in BOOLEAN
  BY DEF Row, Absent, Status

\* An UPDATE leaves a row, with these columns.
LEMMA UpdatedIsRow ==
    ASSUME NEW t, NEW r \in Row,
           t.seen \in Row, t.n \in 1 .. LeadAttempts, t.report \in Report
    PROVE  /\ Updated(t, r) \in Row
           /\ Updated(t, r).status =
                 IF t.report = t.seen.status THEN r.status ELSE t.report
           /\ Updated(t, r).attempts =
                 IF t.report # "pending" \/ t.n = t.seen.attempts
                 THEN r.attempts ELSE t.n
           /\ Updated(t, r).delivered = (r.delivered \/ t.report = "sent")
<1> DEFINE status == IF t.report = t.seen.status THEN r.status ELSE t.report
           attempts == IF t.report # "pending" \/ t.n = t.seen.attempts
                       THEN r.attempts ELSE t.n
           delivered == r.delivered \/ t.report = "sent"
<1>1. status \in Status /\ attempts \in 0 .. LeadAttempts
  BY RowShape, LeadAttemptsPositive DEF Report, Status
<1>2. delivered \in BOOLEAN
  BY RowShape, Zenon
<1>3. Updated(t, r) = [r EXCEPT !.status = status, !.attempts = attempts,
                                !.delivered = delivered]
  BY Zenon DEF Updated
<1> HIDE DEF status, attempts, delivered
<1>4. Updated(t, r) = [status |-> status, attempts |-> attempts,
                       delivered |-> delivered]
  BY <1>3 DEF Row
<1>5. /\ Updated(t, r) \in Row
      /\ Updated(t, r).status = status
      /\ Updated(t, r).attempts = attempts
      /\ Updated(t, r).delivered = delivered
  BY <1>1, <1>2, <1>4 DEF Row
<1> QED BY <1>5 DEF status, attempts, delivered

\* Every step keeps the types.
LEMMA DeliveryStepTypes ==
    ASSUME DeliveryIInv, [DeliveryNext]_deliveryVars
    PROVE  DeliveryTypeOK'
<1> USE LeadAttemptsPositive DEF DeliveryIInv
<1>1. ASSUME NEW t \in Tasks, CreateLead(t) PROVE DeliveryTypeOK'
  BY <1>1 DEF CreateLead, Become, ReportAs, DeliveryTypeOK, TaskState,
              Report, Row, Status
<1>2. ASSUME NEW t \in Tasks, BeginRetry(t) PROVE DeliveryTypeOK'
  BY <1>2 DEF BeginRetry, Become, DeliveryTypeOK, TaskState
<1>3. ASSUME NEW t \in Tasks, CommitRetry(t) PROVE DeliveryTypeOK'
  <2>1. row \in Row
    BY <1>3, TaskShapes DEF CommitRetry, DeliveryTypeOK, TasksOfARow
  <2>2. row' \in Row
    BY <1>3, <2>1 DEF CommitRetry, Row, Status
  <2>3. tasks' \in [Tasks -> TaskState]
    BY <1>3 DEF CommitRetry, Become, ReportAs, DeliveryTypeOK, TaskState,
                Report
  <2> QED BY <1>3, <2>2, <2>3 DEF CommitRetry, DeliveryTypeOK
<1>4. ASSUME NEW t \in Tasks, FailRetry(t) PROVE DeliveryTypeOK'
  BY <1>4 DEF FailRetry, Become, DeliveryTypeOK, TaskState
<1>5. ASSUME NEW t \in Tasks, ReadRow(t) PROVE DeliveryTypeOK'
  <2>1. /\ row \in Row /\ tasks[t].n \in 1 .. LeadAttempts
        /\ tasks[t].report \in Report
    BY <1>5, TaskShapes DEF ReadRow, DeliveryTypeOK, TasksOfARow
  <2>2. [pc |-> "write", n |-> tasks[t].n, report |-> tasks[t].report, seen |-> row]
            \in TaskState
    BY <2>1 DEF TaskState
  <2> QED BY <1>5, <2>2 DEF ReadRow, Become, DeliveryTypeOK
<1>6. ASSUME NEW t \in Tasks, tasks[t].pc \in {"read", "write"}, AfterReport(t)
      PROVE  tasks' \in [Tasks -> TaskState]
  <2>1. tasks[t].n \in 1 .. LeadAttempts
    BY <1>6, TaskShapes
  <2> QED BY <1>6, <2>1 DEF AfterReport, Become, DeliveryTypeOK, TaskState
<1>7. ASSUME NEW t \in Tasks, WriteRow(t) PROVE DeliveryTypeOK'
  <2>1. /\ row \in Row /\ tasks[t].n \in 1 .. LeadAttempts
        /\ tasks[t].report \in Report /\ tasks[t].seen \in Row
    BY <1>7, TaskShapes DEF WriteRow, DeliveryTypeOK, TasksOfARow
  <2>2. Updated(tasks[t], row) \in Row
    BY <2>1, UpdatedIsRow
  <2> QED BY <1>6, <1>7, <2>2 DEF WriteRow, DeliveryTypeOK
<1>8. ASSUME NEW t \in Tasks, UpdateFails(t) PROVE DeliveryTypeOK'
  BY <1>6, <1>8 DEF UpdateFails, DeliveryTypeOK
<1>9. ASSUME NEW t \in Tasks, PostAnswered(t) PROVE DeliveryTypeOK'
  <2>1. tasks[t].n \in 1 .. LeadAttempts
    BY <1>9, TaskShapes DEF PostAnswered
  <2> QED BY <1>9, <2>1 DEF PostAnswered, Become, ReportAs, DeliveryTypeOK,
                            TaskState, Report
<1>10. ASSUME NEW t \in Tasks, NEW got \in BOOLEAN, PostFails(t, got)
       PROVE  DeliveryTypeOK'
  <2>1. tasks[t].n \in 1 .. LeadAttempts
    BY <1>10, TaskShapes DEF PostFails
  <2> QED BY <1>10, <2>1 DEF PostFails, Become, ReportAs, DeliveryTypeOK,
                             TaskState, Report
<1>11. ASSUME NEW t \in Tasks, TaskDies(t) PROVE DeliveryTypeOK'
  BY <1>11 DEF TaskDies, Become, DeliveryTypeOK, TaskState
<1>12. CASE Reconfigure
  BY <1>12 DEF Reconfigure, DeliveryTypeOK
<1>13. CASE UNCHANGED deliveryVars
  BY <1>13 DEF deliveryVars, DeliveryTypeOK
<1> QED
  BY <1>1, <1>2, <1>3, <1>4, <1>5, <1>7, <1>8, <1>9, <1>10, <1>11, <1>12, <1>13
     DEF DeliveryNext, TaskStep
-----------------------------------------------------------------------------
\* The other conjuncts, for a step that changes neither the row nor whether an
\* update was lost, and moves one task t to a state that still settles, reports
\* no success the receiver did not give, and claims no attempt not counted.
LEMMA TaskMoves ==
    ASSUME DeliveryIInv, DeliveryTypeOK', NEW t \in Tasks, NEW s, Become(t, s),
           row # Absent, UNCHANGED <<row, dropped>>,
           reached => reached',
           ~dropped /\ row.status = "pending" /\ Settles(t) => Settles(t)',
           s.pc \in {"read", "write"} /\ s.report = "sent" => reached',
           ~dropped /\ s.pc = "post" => row.attempts > 0,
           ~dropped /\ s.pc \in {"read", "write"} /\ s.report # "pending"
               => row.attempts > 0,
           ~dropped /\ s.pc = "write" /\ s.seen.attempts > 0 => row.attempts > 0
    PROVE  DeliveryIInv'
<1>1. tasks'[t] = s /\ \A u \in Tasks \ {t} : tasks'[u] = tasks[u]
  BY DEF DeliveryIInv, DeliveryTypeOK, Become
<1>2. TasksOfARow'
  BY DEF TasksOfARow
<1>3. ReportsHold'
  BY <1>1 DEF DeliveryIInv, ReportsHold
<1>4. SentWasReceived' /\ SettledWasAttempted'
  BY DEF DeliveryIInv, SentWasReceived, SettledWasAttempted
<1>5. SomeoneSettles'
  <2> SUFFICES ASSUME ~dropped, row.status = "pending"
               PROVE  \E u \in Tasks : Settles(u)'
    BY DEF SomeoneSettles
  <2>1. PICK u \in Tasks : Settles(u)
    BY DEF DeliveryIInv, SomeoneSettles
  <2>2. CASE u = t
    BY <2>1, <2>2
  <2>3. CASE u # t
    BY <1>1, <2>1, <2>3 DEF Settles
  <2> QED BY <2>2, <2>3
<1>6. Counted'
  BY <1>1 DEF DeliveryIInv, Counted
<1> QED BY <1>2, <1>3, <1>4, <1>5, <1>6 DEF DeliveryIInv

\* Once an update is lost only the first conjuncts are at stake.
LEMMA AfterLoss ==
    ASSUME DeliveryIInv, DeliveryTypeOK', dropped', UNCHANGED <<row, reached>>,
           row # Absent, ReportsHold'
    PROVE  DeliveryIInv'
  BY DEF DeliveryIInv, TasksOfARow, SentWasReceived, SomeoneSettles, Counted,
         SettledWasAttempted

\* create_lead: the new row is pending with its task queued, or skipped.
LEMMA CreateStep ==
    ASSUME DeliveryIInv, DeliveryTypeOK', NEW t \in Tasks, CreateLead(t)
    PROVE  DeliveryIInv'
<1>1. row'.delivered = FALSE /\ row'.status \in {"pending", "skipped"}
  BY DEF CreateLead
<1>2. row' # Absent
  BY <1>1 DEF Absent
<1>3. \A u \in Tasks : tasks[u] = Free
  BY DEF DeliveryIInv, TasksOfARow, CreateLead
<1>4. /\ \A u \in Tasks \ {t} : tasks'[u] = Free
      /\ tasks'[t] = IF enabled THEN ReportAs(1, "pending") ELSE Free
  BY <1>3 DEF CreateLead, Become, DeliveryIInv, DeliveryTypeOK
<1>5. TasksOfARow'
  BY <1>2 DEF TasksOfARow
<1>6. ReportsHold' /\ Counted'
  BY <1>4 DEF ReportsHold, Counted, ReportAs, Free
<1>7. SentWasReceived' /\ SettledWasAttempted'
  BY <1>1 DEF SentWasReceived, SettledWasAttempted
<1>8. SomeoneSettles'
  <2> SUFFICES ASSUME row'.status = "pending" PROVE Settles(t)'
    BY DEF SomeoneSettles
  <2>1. enabled
    BY DEF CreateLead
  <2> QED BY <1>4, <2>1 DEF Settles, ReportAs
<1> QED BY <1>5, <1>6, <1>7, <1>8 DEF DeliveryIInv

\* retry_lead_delivery: whatever the row says, the queued task will settle it.
LEMMA RetryStep ==
    ASSUME DeliveryIInv, DeliveryTypeOK', NEW t \in Tasks, CommitRetry(t)
    PROVE  DeliveryIInv'
<1>1. row \in Row /\ row # Absent
  BY TaskShapes DEF CommitRetry, DeliveryIInv, DeliveryTypeOK, TasksOfARow, Absent,
                    Free
<1>2. /\ row' # Absent
      /\ row'.status = row.status \/ row'.status = "pending"
      /\ row'.delivered = row.delivered
      /\ row'.attempts = row.attempts
  <2>1. CASE row' = row
    BY <1>1, <2>1
  <2>2. CASE row' = [row EXCEPT !.status = "pending"]
    BY <1>1, <2>2 DEF Row, Absent
  <2> QED BY <2>1, <2>2 DEF CommitRetry
<1>3. /\ tasks'[t] = ReportAs(1, "pending")
      /\ \A u \in Tasks \ {t} : tasks'[u] = tasks[u]
  BY DEF CommitRetry, Become, DeliveryIInv, DeliveryTypeOK
<1>4. UNCHANGED <<reached, dropped>>
  BY DEF CommitRetry
<1>5. TasksOfARow'
  BY <1>2 DEF TasksOfARow
<1>6. ReportsHold'
  BY <1>3, <1>4 DEF DeliveryIInv, ReportsHold, ReportAs
<1>7. SentWasReceived' /\ SettledWasAttempted'
  BY <1>1, <1>2, <1>4 DEF DeliveryIInv, SentWasReceived, SettledWasAttempted
<1>8. SomeoneSettles'
  BY <1>3 DEF SomeoneSettles, Settles, ReportAs
<1>9. Counted'
  BY <1>2, <1>3, <1>4 DEF DeliveryIInv, Counted, ReportAs
<1> QED BY <1>5, <1>6, <1>7, <1>8, <1>9 DEF DeliveryIInv

\* The commit of a report: a row that stays pending has been read as such by
\* the task, so the task was not the one to settle it.
LEMMA WriteStep ==
    ASSUME DeliveryIInv, DeliveryTypeOK',
           NEW t \in Tasks, WriteRow(t)
    PROVE  DeliveryIInv'
<1> DEFINE me == tasks[t]
<1>1. /\ row \in Row /\ row # Absent /\ me.seen \in Row
      /\ me.n \in 1 .. LeadAttempts /\ me.report \in Report /\ me.pc = "write"
  BY TaskShapes, RowShape DEF WriteRow, DeliveryIInv, DeliveryTypeOK, TasksOfARow,
                              Absent, Free
<1>2. /\ row' \in Row /\ row' # Absent
      /\ row'.status = IF me.report = me.seen.status THEN row.status ELSE me.report
      /\ row'.attempts = IF me.report # "pending" \/ me.n = me.seen.attempts
                         THEN row.attempts ELSE me.n
      /\ row'.delivered = (row.delivered \/ me.report = "sent")
  BY <1>1, UpdatedIsRow, RowShape DEF WriteRow
<1>3. /\ tasks'[t] = IF me.report = "pending" THEN [pc |-> "post", n |-> me.n]
                     ELSE Free
      /\ \A u \in Tasks \ {t} : tasks'[u] = tasks[u]
  BY DEF WriteRow, AfterReport, Become, DeliveryIInv, DeliveryTypeOK
<1>4. UNCHANGED <<reached, dropped>>
  BY DEF WriteRow
<1>5. /\ me.report = "sent" => reached
      /\ ~dropped /\ me.report # "pending" => row.attempts > 0
      /\ ~dropped /\ me.seen.attempts > 0 => row.attempts > 0
      /\ row.status = "sent" \/ row.delivered => reached
  BY <1>1 DEF DeliveryIInv, ReportsHold, Counted, SentWasReceived
<1>6. ~dropped /\ row.attempts > 0 => row'.attempts > 0
  BY <1>1, <1>2
<1>7. ~dropped /\ me.report = "pending" => row'.attempts > 0
  BY <1>1, <1>2, <1>5, RowShape
<1> HIDE DEF me
<1>8. TasksOfARow'
  BY <1>2 DEF TasksOfARow
<1>9. ReportsHold'
  BY <1>3, <1>4 DEF DeliveryIInv, ReportsHold, Free
<1>10. SentWasReceived'
  BY <1>2, <1>4, <1>5 DEF SentWasReceived
<1>11. SettledWasAttempted'
  <2> SUFFICES ASSUME ~dropped, row'.status \in {"sent", "failed"}
               PROVE  row'.attempts > 0
    BY <1>4 DEF SettledWasAttempted
  <2>1. CASE me.report = "pending"
    BY <1>7, <2>1
  <2>2. CASE me.report # "pending"
    BY <1>5, <1>6, <2>2
  <2> QED BY <2>1, <2>2
<1>12. SomeoneSettles'
  <2> SUFFICES ASSUME ~dropped, row'.status = "pending"
               PROVE  \E u \in Tasks : Settles(u)'
    BY <1>4 DEF SomeoneSettles
  <2>1. CASE me.report = "pending"
    BY <1>3, <2>1 DEF Settles
  <2>2. CASE me.report # "pending"
    <3>1. me.report = me.seen.status /\ row.status = "pending"
      BY <1>2, <2>2
    <3>2. PICK u \in Tasks : Settles(u)
      BY <1>1, <3>1 DEF DeliveryIInv, SomeoneSettles
    <3>3. u # t
      BY <1>1, <2>2, <3>1, <3>2 DEF Settles, me
    <3> QED BY <1>3, <3>2, <3>3 DEF Settles
  <2> QED BY <2>1, <2>2
<1>13. Counted'
  <2> SUFFICES ASSUME ~dropped, NEW u \in Tasks
               PROVE  /\ \/ tasks'[u].pc = "post"
                         \/ /\ tasks'[u].pc \in {"read", "write"}
                            /\ tasks'[u].report # "pending"
                         => row'.attempts > 0
                      /\ tasks'[u].pc = "write" /\ tasks'[u].seen.attempts > 0
                         => row'.attempts > 0
    BY <1>4 DEF Counted
  <2>1. CASE u = t
    BY <1>3, <1>7, <2>1 DEF Free
  <2>2. CASE u # t
    BY <1>3, <1>6, <2>2 DEF DeliveryIInv, Counted
  <2> QED BY <2>1, <2>2
<1> QED BY <1>8, <1>9, <1>10, <1>11, <1>12, <1>13 DEF DeliveryIInv
-----------------------------------------------------------------------------
\* Every step keeps the invariant.
LEMMA DeliveryKeeps ==
    ASSUME DeliveryIInv, [DeliveryNext]_deliveryVars
    PROVE  DeliveryIInv'
<1>0. DeliveryTypeOK'
  BY DeliveryStepTypes
<1>1. ASSUME NEW t \in Tasks, CreateLead(t) PROVE DeliveryIInv'
  BY <1>0, <1>1, CreateStep
<1>2. ASSUME NEW t \in Tasks, BeginRetry(t) PROVE DeliveryIInv'
  <2> DEFINE s == [pc |-> "retry", seen |-> row]
  <2>1. ~Settles(t)
    BY <1>2 DEF BeginRetry, Settles, Free
  <2>2. s.pc \notin {"read", "write", "post"}
    OBVIOUS
  <2>3. Become(t, s) /\ row # Absent /\ UNCHANGED <<row, dropped, reached>>
    BY <1>2 DEF BeginRetry
  <2> HIDE DEF s
  <2> QED BY <1>0, <2>1, <2>2, <2>3, TaskMoves
<1>3. ASSUME NEW t \in Tasks, CommitRetry(t) PROVE DeliveryIInv'
  BY <1>0, <1>3, RetryStep
<1>4. ASSUME NEW t \in Tasks, FailRetry(t) PROVE DeliveryIInv'
  <2>1. ~Settles(t) /\ Free.pc \notin {"read", "write", "post"}
    BY <1>4 DEF FailRetry, Settles, Free
  <2>2. Become(t, Free) /\ row # Absent /\ UNCHANGED <<row, dropped, reached>>
    BY <1>4 DEF FailRetry, DeliveryIInv, TasksOfARow, Free
  <2> QED BY <1>0, <2>1, <2>2, TaskMoves
<1>5. ASSUME NEW t \in Tasks, ReadRow(t) PROVE DeliveryIInv'
  <2> DEFINE s == [pc |-> "write", n |-> tasks[t].n,
                   report |-> tasks[t].report, seen |-> row]
  <2>1. Become(t, s) /\ row # Absent /\ UNCHANGED <<row, dropped, reached>>
    BY <1>5 DEF ReadRow, DeliveryIInv, TasksOfARow, Free
  <2>2. /\ s.pc = "write" /\ s.report = tasks[t].report /\ s.seen = row
        /\ tasks[t].pc = "read" /\ tasks[t].report \in Report
    BY <1>5, TaskShapes DEF ReadRow, DeliveryIInv
  <2>3. tasks'[t] = s
    BY <2>1 DEF Become, DeliveryIInv, DeliveryTypeOK
  <2> HIDE DEF s
  <2>4. row.status = "pending" => Settles(t)'
    BY <2>2, <2>3 DEF Settles
  <2>5. /\ s.report = "sent" => reached'
        /\ ~dropped /\ s.report # "pending" => row.attempts > 0
    BY <2>1, <2>2 DEF DeliveryIInv, ReportsHold, Counted
  <2> QED BY <1>0, <2>1, <2>2, <2>4, <2>5, TaskMoves
<1>6. ASSUME NEW t \in Tasks, WriteRow(t) PROVE DeliveryIInv'
  BY <1>0, <1>6, WriteStep
<1>7. ASSUME NEW t \in Tasks, UpdateFails(t) PROVE DeliveryIInv'
  <2>1. row # Absent /\ dropped' /\ UNCHANGED <<row, reached>>
    BY <1>7 DEF UpdateFails, DeliveryIInv, TasksOfARow, Free
  <2>2. ReportsHold'
    BY <1>7, <2>1 DEF UpdateFails, AfterReport, Become, ReportsHold,
                      DeliveryIInv, DeliveryTypeOK, Free
  <2> QED BY <1>0, <2>1, <2>2, AfterLoss
<1>8. ASSUME NEW t \in Tasks, PostAnswered(t) PROVE DeliveryIInv'
  <2> DEFINE s == ReportAs(tasks[t].n, "sent")
  <2>1. /\ Become(t, s) /\ row # Absent /\ UNCHANGED <<row, dropped>>
        /\ reached' /\ tasks[t].pc = "post"
    BY <1>8 DEF PostAnswered, DeliveryIInv, TasksOfARow, Free
  <2>2. s.pc = "read" /\ s.report = "sent" /\ tasks'[t] = s
    BY <2>1 DEF ReportAs, Become, DeliveryIInv, DeliveryTypeOK
  <2> HIDE DEF s
  <2>3. Settles(t)' /\ (~dropped => row.attempts > 0)
    BY <2>1, <2>2 DEF Settles, DeliveryIInv, Counted
  <2> QED BY <1>0, <2>1, <2>2, <2>3, TaskMoves
<1>9. ASSUME NEW t \in Tasks, NEW got \in BOOLEAN, PostFails(t, got)
      PROVE  DeliveryIInv'
  <2> DEFINE s == IF tasks[t].n < LeadAttempts
                  THEN ReportAs(tasks[t].n + 1, "pending")
                  ELSE ReportAs(LeadAttempts, "failed")
  <2>1. /\ Become(t, s) /\ UNCHANGED <<row, dropped>>
        /\ tasks[t].pc = "post"
    BY <1>9 DEF PostFails
  <2>2. row # Absent
    BY <2>1 DEF DeliveryIInv, TasksOfARow, Free
  <2>3. reached => reached'
    BY <1>9, Zenon DEF PostFails
  <2>4. s.pc = "read" /\ s.report # "sent" /\ tasks'[t] = s
    BY <2>1 DEF ReportAs, Become, DeliveryIInv, DeliveryTypeOK
  <2> HIDE DEF s
  <2>5. Settles(t)' /\ (~dropped => row.attempts > 0)
    BY <2>1, <2>4 DEF Settles, DeliveryIInv, Counted
  <2> QED BY <1>0, <2>1, <2>2, <2>3, <2>4, <2>5, TaskMoves
<1>10. ASSUME NEW t \in Tasks, TaskDies(t) PROVE DeliveryIInv'
  <2>1. row # Absent /\ dropped' /\ UNCHANGED <<row, reached>>
    BY <1>10 DEF TaskDies, DeliveryIInv, TasksOfARow
  <2>2. ReportsHold'
    BY <1>10, <2>1 DEF TaskDies, Become, ReportsHold, DeliveryIInv, DeliveryTypeOK,
                       Free
  <2> QED BY <1>0, <2>1, <2>2, AfterLoss
<1>11. CASE Reconfigure
  BY <1>0, <1>11 DEF Reconfigure, DeliveryIInv, TasksOfARow, ReportsHold,
                     SentWasReceived,
                     SomeoneSettles, Settles, Counted, SettledWasAttempted
<1>12. CASE UNCHANGED deliveryVars
  BY <1>0, <1>12 DEF deliveryVars, DeliveryIInv, TasksOfARow, ReportsHold,
                     SentWasReceived,
                     SomeoneSettles, Settles, Counted, SettledWasAttempted
<1> QED
  BY <1>1, <1>2, <1>3, <1>4, <1>5, <1>6, <1>7, <1>8, <1>9, <1>10, <1>11, <1>12
     DEF DeliveryNext, TaskStep

\* The invariant holds throughout.
THEOREM DeliveryInvariance == DeliverySpec => []DeliveryIInv
  BY DeliveryStarts, DeliveryKeeps, PTL DEF DeliverySpec

\* The variables keep their types.
THEOREM DeliveryTypes == DeliverySpec => []DeliveryTypeOK
<1>1. DeliveryIInv => DeliveryTypeOK
  BY DEF DeliveryIInv
<1> QED BY <1>1, DeliveryInvariance, PTL

\* No lead is shown as sent, or stamped as delivered, that the receiver never
\* got, however many tasks and retries overlap (send_lead_webhook).
THEOREM SentIsReceived == DeliverySpec => []SentWasReceived
<1>1. DeliveryIInv => SentWasReceived
  BY DEF DeliveryIInv
<1> QED BY <1>1, DeliveryInvariance, PTL

\* A lead that no task is working on is settled, unless a task or an update
\* was lost: columns left out of an UPDATE never undo the last report.
THEOREM QuietIsSettled == DeliverySpec => []QuietMeansSettled
<1>1. DeliveryIInv => QuietMeansSettled
  BY DEF DeliveryIInv, QuietMeansSettled, SomeoneSettles, Settles, Free
<1> QED BY <1>1, DeliveryInvariance, PTL

\* No outcome is recorded without an attempt having been counted.
THEOREM OutcomeWasAttempted == DeliverySpec => []SettledWasAttempted
<1>1. DeliveryIInv => SettledWasAttempted
  BY DEF DeliveryIInv
<1> QED BY <1>1, DeliveryInvariance, PTL
=============================================================================
