------------------------------ MODULE DealRoom ------------------------------
(***************************************************************************)
(* The deal room: the messages of a member's thread (app/routes/broker.py, *)
(* app/routes/frontend_compat.py, app/services/broker_messages.py), the    *)
(* broker each is given to (app/services/broker_routing.py), who may write *)
(* and read for whom (app/services/cu_member_scope.py), and what leaves    *)
(* the room: a line in the CRM's conversation with the customer            *)
(* (app/services/ghl_deal_room.py), within the request, and a webhook      *)
(* (app/services/broker_message_webhook.py), in a task in memory.          *)
(*                                                                         *)
(* A text is a sequence of words; the kind of its author is stored as a    *)
(* word in front of it.  Messages are stored in the order of their commits *)
(* and stamped with the second.                                            *)
(***************************************************************************)
EXTENDS Integers, Sequences, SequencesExt, FiniteSetsExt

CONSTANTS Workers,      \* request threads
          Members,      \* customers; only their threads are tried
          Staff,        \* staff of credit unions
          Linked,       \* staff and the members of their credit union
          Agents,       \* brokers and dealers, numbered as their ids are
          Contacts,     \* who is a contact in the CRM
          Words,        \* what texts are made of, the prefixes among them
          Texts,        \* bound: the texts that are tried
          Setups,       \* settings of the process, and bounds that go with them
          MaxAttempts,  \* broker_message_webhook_max_attempts
          MaxTime,      \* bound: seconds
          None

Users == Members \cup Staff \cup Agents

\* The roles an agent may be given; "customer" stands for credit_union too,
\* which without a credit union may as little.
Repliers == {"broker_admin", "dealer"}
DealersSide == Repliers \cup {"super_admin"}
Role == DealersSide \cup {"customer"}

\* map_member_audience_to_sender_type, and the kinds of those who reply.
SenderType(audience) == CASE audience = "cu" -> "customer_cu"
                          [] audience = "broker" -> "customer_broker"
                          [] OTHER -> "customer"

Kind == {"customer", "customer_cu", "customer_broker", "broker", "credit_union"}

Prefix == [kind \in Kind |->
              CASE kind = "customer" -> "[CUSTOMER]"
                [] kind = "customer_cu" -> "[CUSTOMER_CU]"
                [] kind = "customer_broker" -> "[CUSTOMER_BROKER]"
                [] kind = "broker" -> "[BROKER]"
                [] kind = "credit_union" -> "[CREDIT_UNION]"]

\* hook, ghl: are the webhook and the CRM configured?  single: the agent all
\* messages go to, if he is a broker; the rest are bounds: who writes, what,
\* over how many workers, how many messages, and the roles agents are given.
Setup == [hook : BOOLEAN, ghl : BOOLEAN, single : Agents \cup {None},
          audiences : SUBSET {"both", "cu", "broker"}, texts : SUBSET Texts,
          writers : SUBSET Users, busy : SUBSET Workers, most : Nat,
          roles : SUBSET Role]

ASSUME RoomAllowed == /\ Linked \subseteq Staff \X Members
                      /\ Agents \subseteq Nat
                      /\ Agents \cap (Members \cup Staff) = {}
                      /\ None \notin Users
                      /\ {Prefix[kind] : kind \in Kind} \subseteq Words
                      /\ Texts \subseteq Seq(Words)
                      /\ Contacts \subseteq Users
                      /\ Setups \subseteq Setup
                      /\ MaxAttempts \in Nat \ {0}
                      /\ MaxTime \in Nat

VARIABLES messages,  \* broker_messages, in the order of their ids
          stage,     \* what the server has still to do for each message
          work,      \* worker -> the post or reply it has not committed yet
          role,      \* agent -> role, while the account exists
          sent,      \* what has left the room
          now,       \* the second
          setup

vars == <<messages, stage, work, role, sent, now, setup>>
-----------------------------------------------------------------------------
\* said: as its author meant it (history only).
Message == [member : Members, stored : Seq(Words), broker : Agents \cup {None},
            at : Nat, said : [kind : Kind, text : Texts]]

\* speaker: the account whose contact the conversation is looked up by.
Stage == [pc : {"lookup", "post", "again", "queued", "attempt", "done", "lost"},
          tries : 0 .. MaxAttempts - 1, speaker : Users]

Post == [by : Users, member : Members, speaker : Users,
         said : [kind : Kind, text : Texts], broker : Agents \cup {None},
         given : BOOLEAN,      \* by select_next_broker_admin_user_id
         seen : Nat, among : SUBSET Agents]   \* (history only)

Idle == [by |-> None]

TypeOK == /\ messages \in Seq(Message)
          /\ Len(messages) <= setup.most
          /\ stage \in Seq(Stage) /\ Len(stage) = Len(messages)
          /\ work \in [Workers -> Post \cup {Idle}]
          /\ role \in [Agents -> Role \cup {"gone"}]
          /\ \A d \in sent : /\ d.msg \in DOMAIN messages
                             /\ d.channel \in {"conversation", "webhook"}
          /\ now \in 0 .. MaxTime
          /\ setup \in Setups

Init == /\ messages = <<>> /\ stage = <<>>
        /\ work = [w \in Workers |-> Idle]
        /\ sent = {}
        /\ now = 0
        /\ setup \in Setups
        /\ role \in [Agents -> setup.roles]
-----------------------------------------------------------------------------
\* encode_message_for_storage.
Encode(text, kind) == <<Prefix[kind]>> \o text

\* Mutant: a customer's line is recognised by how its prefix begins.
ParseByStart(stored) ==
    IF stored # <<>> /\ Head(stored) \in {Prefix["broker"], Prefix["credit_union"]}
    THEN [kind |-> CHOOSE k \in Kind : Prefix[k] = Head(stored), text |-> Tail(stored)]
    ELSE [kind |-> "customer",
          text |-> IF stored = <<>> THEN stored ELSE Tail(stored)]

\* parse_message_from_storage.
Parse(stored) ==
    IF \E k \in Kind : IsPrefix(<<Prefix[k]>>, stored)
    THEN [kind |-> CHOOSE k \in Kind : Prefix[k] = Head(stored), text |-> Tail(stored)]
    ELSE [kind |-> "customer", text |-> stored]

\* should_sync_customer_message_to_ghl, should_run_broker_customer_webhook.
ForDealers(stored) == Parse(stored).kind \in {"customer", "customer_broker"}

\* resolve_member_scope_user_id: may u act for m?
Scope(u, m) == \/ u = m
               \/ <<u, m>> \in Linked
               \/ u \in Agents /\ role[u] \in DealersSide

\* list_messages: the messages u sees, of one member or (m = None) by default.
Inbox(u, m) ==
    {k \in DOMAIN messages :
        \/ m = None /\ u \in Agents /\ role[u] \in DealersSide
        \/ m = None /\ messages[k].member = u
        \/ m # None /\ Scope(u, m) /\ messages[k].member = m}
-----------------------------------------------------------------------------
Times(agent) == {messages[k].at : k \in {i \in DOMAIN messages :
                                            messages[i].broker = agent}}

\* Mutant: the first message counts, not the last.
Earliest(agent) == IF Times(agent) = {} THEN -1 ELSE Min(Times(agent))

\* When an agent last got or wrote a message; never comes first.
Latest(agent) == IF Times(agent) = {} THEN -1 ELSE Max(Times(agent))

Rotation == {a \in Agents : role[a] = "broker_admin"}

\* select_next_broker_admin_user_id.
Chosen ==
    CASE setup.single \in Rotation -> setup.single
      [] Rotation = {} -> None
      [] OTHER -> CHOOSE b \in Rotation : \A c \in Rotation :
             Latest(b) < Latest(c) \/ (Latest(b) = Latest(c) /\ b <= c)

Start(w, post) ==
    /\ work[w] = Idle
    /\ Len(messages) < setup.most
    /\ work' = [work EXCEPT ![w] = post]
    /\ UNCHANGED <<messages, stage, role, sent, now, setup>>

PostOf(u, m, speaker, kind, text) ==
    [by |-> u, member |-> m, speaker |-> speaker,
     said |-> [kind |-> kind, text |-> text], broker |-> Chosen,
     given |-> TRUE, seen |-> Len(messages), among |-> Rotation]

\* send_message: whoever writes for a member, the member is the speaker.
BeginMessage(w, u, m, audience, text) ==
    /\ Scope(u, m)
    /\ Start(w, PostOf(u, m, m, SenderType(audience), text))

\* send_message_compat: the speaker is who is logged in.
BeginCompat(w, u, m, audience, text) ==
    /\ text # <<>>
    /\ Scope(u, m)
    /\ Start(w, PostOf(u, m, u, SenderType(audience), text))

\* reply_to_customer: for brokers and dealers; the message is its author's.
BeginReply(w, a, m, text) ==
    /\ role[a] \in Repliers
    /\ Start(w, [PostOf(a, m, a, "broker", text) EXCEPT !.broker = a, !.given = FALSE])

\* credit_union_reply_to_member.
BeginCuReply(w, s, m, text) ==
    /\ <<s, m>> \in Linked
    /\ Start(w, PostOf(s, m, s, "credit_union", text))

\* What is still to be done of a message: first the conversation, then the
\* webhook, and neither for replies and for lines to the credit union alone.
HookStage(stored) ==
    IF setup.hook /\ ForDealers(stored) THEN "queued" ELSE "done"

FirstStage(post, stored) ==
    IF post.said.kind \in {"broker", "credit_union"} THEN "done"
    ELSE IF setup.ghl /\ ForDealers(stored) THEN "lookup" ELSE HookStage(stored)

\* The insert; its foreign key refuses a broker who is gone.
Commit(w) ==
    LET p == work[w]
        stored == Encode(p.said.text, p.said.kind)
    IN /\ p # Idle
       /\ Len(messages) < setup.most
       /\ p.broker # None => role[p.broker] # "gone"
       /\ messages' = Append(messages, [member |-> p.member, stored |-> stored,
                                        broker |-> p.broker, at |-> now,
                                        said |-> p.said])
       /\ stage' = Append(stage, [pc |-> FirstStage(p, stored), tries |-> 0,
                                  speaker |-> p.speaker])
       /\ work' = [work EXCEPT ![w] = Idle]
       /\ UNCHANGED <<role, sent, now, setup>>

Rollback(w) == /\ work[w] # Idle
               /\ work' = [work EXCEPT ![w] = Idle]
               /\ UNCHANGED <<messages, stage, role, sent, now, setup>>
-----------------------------------------------------------------------------
Goto(k, pc) == stage' = [stage EXCEPT ![k].pc = pc]

\* The receiver may get a post whose answer is lost.
Leaves(k, channel, to) ==
    sent' = sent \cup {[msg |-> k, channel |-> channel, to |-> to,
                        text |-> Parse(messages[k].stored).text]}

\* sync_deal_room_customer_message_to_ghl: only who is a contact already has a
\* conversation; a lookup may fail.
Lookup(k, found) ==
    /\ stage[k].pc = "lookup"
    /\ found => stage[k].speaker \in Contacts
    /\ Goto(k, IF found THEN "post" ELSE HookStage(messages[k].stored))
    /\ UNCHANGED <<messages, work, role, sent, now, setup>>

\* post_ghl_inbound_conversation: tried twice, the second time with the
\* location; its failure is only logged.
PostInbound(k, received, answered) ==
    /\ stage[k].pc \in {"post", "again"}
    /\ answered => received
    /\ Goto(k, IF ~answered /\ stage[k].pc = "post" THEN "again"
               ELSE HookStage(messages[k].stored))
    /\ IF received THEN Leaves(k, "conversation", stage[k].speaker) ELSE UNCHANGED sent
    /\ UNCHANGED <<messages, work, role, now, setup>>

\* run_broker_customer_message_webhook_task reads the row again.
RunTask(k) ==
    /\ stage[k].pc = "queued"
    /\ Goto(k, IF ForDealers(messages[k].stored) THEN "attempt" ELSE "done")
    /\ UNCHANGED <<messages, work, role, sent, now, setup>>

\* Mutant: an attempt more than the limit.
AttemptOnceMore(k, received, answered, again) ==
    /\ stage[k].pc = "attempt"
    /\ answered => received
    /\ again => ~answered /\ stage[k].tries < MaxAttempts
    /\ stage' = IF again THEN [stage EXCEPT ![k].tries = @ + 1]
                ELSE [stage EXCEPT ![k].pc = "done"]
    /\ IF received THEN Leaves(k, "webhook", messages[k].member) ELSE UNCHANGED sent
    /\ UNCHANGED <<messages, work, role, now, setup>>

\* send_broker_customer_message_webhook: for the member whose thread it is.  A
\* failure of HTTP is tried again while attempts are left, any other ends the
\* task.
Attempt(k, received, answered, again) ==
    /\ stage[k].pc = "attempt"
    /\ answered => received
    /\ again => ~answered /\ stage[k].tries + 1 < MaxAttempts
    /\ stage' = IF again THEN [stage EXCEPT ![k].tries = @ + 1]
                ELSE [stage EXCEPT ![k].pc = "done"]
    /\ IF received THEN Leaves(k, "webhook", messages[k].member) ELSE UNCHANGED sent
    /\ UNCHANGED <<messages, work, role, now, setup>>

\* The process stops: requests and tasks are gone.
Crash ==
    /\ work' = [w \in Workers |-> Idle]
    /\ stage' = [k \in DOMAIN stage |->
                    IF stage[k].pc = "done" THEN stage[k]
                    ELSE [stage[k] EXCEPT !.pc = "lost"]]
    /\ UNCHANGED <<messages, role, sent, now, setup>>

\* admin_update_user (only the last super admin is refused: there is another).
ChangeRole(a, r) == /\ role[a] # "gone"
                    /\ role' = [role EXCEPT ![a] = r]
                    /\ UNCHANGED <<messages, stage, work, sent, now, setup>>

\* admin_delete_user: messages given to the account are given to nobody.
DeleteAgent(a) ==
    /\ role[a] # "gone"
    /\ role' = [role EXCEPT ![a] = "gone"]
    /\ messages' = [k \in DOMAIN messages |->
                       IF messages[k].broker = a
                       THEN [messages[k] EXCEPT !.broker = None] ELSE messages[k]]
    /\ UNCHANGED <<stage, work, sent, now, setup>>

Tick == /\ now < MaxTime
        /\ now' = now + 1
        /\ UNCHANGED <<messages, stage, work, role, sent, setup>>

Next ==
    \/ \E w \in setup.busy :
          \/ \E m \in Members, t \in setup.texts :
                \/ \E u \in setup.writers, audience \in setup.audiences :
                      BeginMessage(w, u, m, audience, t) \/ BeginCompat(w, u, m, audience, t)
                \/ \E a \in Agents \cap setup.writers : BeginReply(w, a, m, t)
                \/ \E s \in Staff \cap setup.writers : BeginCuReply(w, s, m, t)
          \/ Commit(w) \/ Rollback(w)
    \/ \E k \in DOMAIN messages :
          \/ \E found \in BOOLEAN : Lookup(k, found)
          \/ \E received, answered \in BOOLEAN :
                \/ PostInbound(k, received, answered)
                \/ \E again \in BOOLEAN : Attempt(k, received, answered, again)
          \/ RunTask(k)
    \/ \E a \in Agents : DeleteAgent(a) \/ \E r \in setup.roles : ChangeRole(a, r)
    \/ Crash \/ Tick

Spec == Init /\ [][Next]_vars
-----------------------------------------------------------------------------
\* What leaves the room is what a member, or somebody for him, wrote to the
\* dealers, in his words even where they look like a prefix, never a reply and
\* never a line to the credit union alone ("CU-only member lines skip GHL
\* deal-room inbound"); the webhook always names the member.  A thread is read
\* only by the member, the staff of his credit union and who is on the dealers'
\* side now.
RoomKeepsItsOwn ==
    /\ \A d \in sent :
          LET m == messages[d.msg] IN
          /\ m.said.kind \in {"customer", "customer_broker"}
          /\ d.text = m.said.text
          /\ d.channel = "webhook" => d.to = m.member
    /\ \A u \in Users \ {a \in Agents : role[a] \in DealersSide}, m \in Members \cup {None} : \A k \in Inbox(u, m) :
          u = messages[k].member \/ <<u, messages[k].member>> \in Linked

\* "Otherwise: round-robin by least-recently-assigned broker_admin": of two
\* messages given to one broker, the later one passes no broker over who has got
\* or written none since the earlier, unless one of his is of the same second
\* as that, or other messages were stored while the broker was being chosen.
BrokersTakeTurns ==
    [][\A w \in Workers :
          LET p == work[w] IN
          (/\ p # Idle /\ Len(messages') > Len(messages) /\ work'[w] = Idle
           /\ p.given /\ setup.single \notin p.among
           /\ p.seen = Len(messages)) =>
             \A k \in DOMAIN messages : messages[k].broker = p.broker =>
                \A c \in {a \in p.among : role[a] # "gone"} :
                   \E i \in DOMAIN messages :
                      /\ messages[i].broker = c
                      /\ i >= k \/ messages[i].at = messages[k].at]_vars
=============================================================================
