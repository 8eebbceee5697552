--------------------------- MODULE DealRoomProofs ---------------------------
(***************************************************************************)
(* What DealRoom guarantees for any number of members, agents, messages    *)
(* and attempts, under every setting.  The inductive invariant has two     *)
(* halves.  A stored text parses to what was said, so that every stage     *)
(* short of the end belongs to a message for the dealers and what has left *)
(* is in its author's words.  And messages are stamped in their order, so  *)
(* that a broker chosen for having the oldest last message is still one    *)
(* whose turn it is when the post is stored, if no other was stored since. *)
(***************************************************************************)
EXTENDS DealRoom, SequenceTheorems, WellFoundedInduction, TLAPS

\* Messages are stamped in the order of their ids, and none in the future.
Stamped == \A k \in DOMAIN messages :
              /\ messages[k].at <= now
              /\ \A i \in 1 .. k : messages[i].at <= messages[k].at

\* What is stored is what was said, encoded.
StoredAsSaid == \A k \in DOMAIN messages :
    messages[k].stored = Encode(messages[k].said.text, messages[k].said.kind)

\* Of what is said, this is for the dealers.
DealersKinds == {"customer", "customer_broker"}

\* Only what is for the dealers is on its way out.
OnwardToDealers == \A k \in DOMAIN messages :
    stage[k].pc \in {"lookup", "post", "again", "queued", "attempt"} =>
        messages[k].said.kind \in DealersKinds

\* What has left is for the dealers and in its author's words.
SentIsOwn == \A d \in sent :
    LET m == messages[d.msg] IN
    /\ m.said.kind \in DealersKinds
    /\ d.text = m.said.text
    /\ d.channel = "webhook" => d.to = m.member

\* c has got or written a message since, or in the second of, message k.
HadSince(c, k) == \E i \in DOMAIN messages :
    messages[i].broker = c /\ (i >= k \/ messages[i].at = messages[k].at)

\* The broker chosen for post p is the first whose turn it is.
InTurn(p) ==
    (p.given /\ setup.single \notin p.among /\ p.seen = Len(messages)) =>
        /\ p.broker = None => p.among = {}
        /\ \A k \in DOMAIN messages, c \in p.among :
              (messages[k].broker = p.broker /\ role[c] # "gone") => HadSince(c, k)

\* That holds of every post until it is stored.
PostsInTurn == \A w \in Workers : work[w] # Idle =>
    work[w].seen <= Len(messages) /\ InTurn(work[w])

\* The inductive invariant.
IInv == /\ TypeOK
        /\ Stamped /\ StoredAsSaid /\ OnwardToDealers /\ SentIsOwn /\ PostsInTurn
-----------------------------------------------------------------------------
\* A set of natural numbers that is not empty has a least element.
LEMMA LeastOfNats ==
    ASSUME NEW S \in SUBSET Nat, S # {}
    PROVE  \E n \in S : \A m \in S : n <= m
<1>1. PICK n \in S : \A m \in S : <<m, n>> \notin OpToRel(<, Nat)
  BY NatLessThanWellFounded, WFMin, Zenon
<1>2. \A m \in S : ~(m < n)
  BY <1>1 DEF OpToRel
<1> QED BY <1>2

\* A set of natural numbers up to a bound has a greatest element, and it is Max.
LEMMA GreatestOfNats ==
    ASSUME NEW S \in SUBSET Nat, S # {}, NEW b \in Nat, \A n \in S : n <= b
    PROVE  Max(S) \in S /\ \A m \in S : m <= Max(S)
<1> DEFINE Below == {b - n : n \in S}
<1>1. Below \in SUBSET Nat /\ Below # {}
  <2>1. \A n \in S : n \in Nat /\ b - n \in Nat
    OBVIOUS
  <2> QED BY <2>1
<1>2. PICK d \in Below : \A e \in Below : d <= e
  BY <1>1, LeastOfNats
<1>3. PICK n \in S : d = b - n
  BY <1>2
<1>4. ASSUME NEW m \in S PROVE n >= m
  <2>1. d <= b - m
    BY <1>2
  <2> QED BY <2>1, <1>3
<1>5. \E x \in S : \A y \in S : x >= y
  BY <1>4
<1>6. Max(S) \in S /\ \A y \in S : Max(S) >= y
  BY <1>5, Zenon DEF Max
<1> QED BY <1>6

\* The prefixes are words, and no two kinds have the same.
LEMMA PrefixWords ==
    /\ Prefix["customer"] = "[CUSTOMER]"
    /\ Prefix["customer_cu"] = "[CUSTOMER_CU]"
    /\ Prefix["customer_broker"] = "[CUSTOMER_BROKER]"
    /\ Prefix["broker"] = "[BROKER]"
    /\ Prefix["credit_union"] = "[CREDIT_UNION]"
    /\ \A k \in Kind : Prefix[k] \in Words
<1>1. /\ Prefix["customer"] = "[CUSTOMER]"
      /\ Prefix["customer_cu"] = "[CUSTOMER_CU]"
      /\ Prefix["customer_broker"] = "[CUSTOMER_BROKER]"
      /\ Prefix["broker"] = "[BROKER]"
      /\ Prefix["credit_union"] = "[CREDIT_UNION]"
  BY DEF Prefix, Kind
<1> QED BY <1>1, RoomAllowed

\* A stored message starts with the prefix of its kind, which is no other
\* kind's: reading it gives the kind and the text that were stored.
LEMMA ParseOfEncode ==
    ASSUME NEW text \in Seq(Words), NEW kind \in Kind
    PROVE  /\ Encode(text, kind) \in Seq(Words)
           /\ Parse(Encode(text, kind)) = [kind |-> kind, text |-> text]
<1> DEFINE stored == Encode(text, kind)
<1>1. Prefix[kind] \in Words /\ <<Prefix[kind]>> \in Seq(Words)
  BY PrefixWords
<1>2. /\ stored \in Seq(Words) /\ Len(stored) = 1 + Len(text)
      /\ \A i \in 1 .. 1 + Len(text) :
            stored[i] = IF i <= 1 THEN <<Prefix[kind]>>[i] ELSE text[i - 1]
  BY <1>1, ConcatProperties DEF Encode
<1>3. stored # <<>> /\ Head(stored) = Prefix[kind] /\ stored[1] = Prefix[kind]
  <2>1. stored[1] = Prefix[kind]
    BY <1>1, <1>2
  <2>2. Head(stored) = stored[1] /\ stored # <<>>
    BY <1>2
  <2> QED BY <2>1, <2>2
<1>4. Tail(stored) = text
  <2>1. /\ Tail(stored) \in Seq(Words) /\ Len(Tail(stored)) = Len(text)
        /\ \A i \in 1 .. Len(Tail(stored)) : Tail(stored)[i] = stored[i + 1]
    BY <1>2, <1>3, HeadTailProperties
  <2>2. \A i \in 1 .. Len(text) : Tail(stored)[i] = text[i]
    BY <2>1, <1>2
  <2> QED BY <2>1, <2>2, SeqEqual
<1>5. \A k \in Kind : Prefix[k] = Head(stored) <=> k = kind
  BY <1>3, PrefixWords DEF Kind
<1>6. IsPrefix(<<Prefix[kind]>>, stored)
  <2>1. 1 \in 1 .. Len(<<Prefix[kind]>>) /\ Len(<<Prefix[kind]>>) = 1
    BY <1>1
  <2>2. SubSeq(stored, 1, 1) = SubSeq(<<Prefix[kind]>>, 1, 1)
    BY <1>1, <2>1, SubSeqOfConcat1 DEF Encode
  <2> QED BY <1>2, <2>1, <2>2 DEF IsPrefix
<1>7. (CHOOSE k \in Kind : Prefix[k] = Head(stored)) = kind
  BY <1>5
<1> HIDE DEF stored
<1>8. Parse(stored) = [kind |-> kind, text |-> text]
  BY <1>4, <1>6, <1>7 DEF Parse
<1> QED BY <1>2, <1>8 DEF stored

\* So a message is for the dealers when what was said is.
LEMMA ForDealersWhenSaid ==
    ASSUME NEW text \in Seq(Words), NEW kind \in Kind
    PROVE  ForDealers(Encode(text, kind)) <=> kind \in DealersKinds
  BY ParseOfEncode DEF ForDealers, DealersKinds
-----------------------------------------------------------------------------
\* Latest bounds the seconds of an agent's messages, and is one of them.
LEMMA LatestIsLast ==
    ASSUME TypeOK, Stamped, NEW a \in Agents
    PROVE  /\ Latest(a) \in Int /\ Latest(a) + 1 \in Nat
           /\ \A k \in DOMAIN messages :
                 messages[k].broker = a => messages[k].at <= Latest(a)
           /\ Latest(a) # -1 => \E k \in DOMAIN messages :
                 messages[k].broker = a /\ messages[k].at = Latest(a)
<1>1. /\ now \in Nat
      /\ \A k \in DOMAIN messages : messages[k].at \in Nat /\ messages[k].at <= now
  <2>1. ASSUME NEW k \in DOMAIN messages PROVE messages[k] \in Message
    BY DEF TypeOK
  <2> QED BY <2>1, RoomAllowed DEF TypeOK, Stamped, Message
<1>2. Times(a) \in SUBSET Nat /\ \A t \in Times(a) : t <= now
  BY <1>1 DEF Times
<1>3. CASE Times(a) = {}
  <2>1. Latest(a) = -1
    BY <1>3 DEF Latest
  <2>2. \A k \in DOMAIN messages : messages[k].broker # a
    BY <1>3 DEF Times
  <2> QED BY <2>1, <2>2
<1>4. CASE Times(a) # {}
  <2>1. Latest(a) = Max(Times(a))
    BY <1>4 DEF Latest
  <2>2. Latest(a) \in Times(a) /\ \A t \in Times(a) : t <= Latest(a)
    BY <1>1, <1>2, <1>4, <2>1, GreatestOfNats
  <2>3. Latest(a) \in Nat
    BY <1>2, <2>2
  <2>4. \A k \in DOMAIN messages : messages[k].broker = a => messages[k].at \in Times(a)
    BY DEF Times
  <2>5. \E k \in DOMAIN messages : messages[k].broker = a /\ messages[k].at = Latest(a)
    BY <2>2 DEF Times
  <2> QED BY <2>2, <2>3, <2>4, <2>5
<1> QED BY <1>3, <1>4

\* When there are brokers, one of them is least in the order of choice.
LEMMA SomebodyIsFirst ==
    ASSUME TypeOK, Stamped, Rotation # {}
    PROVE  \E b \in Rotation : \A c \in Rotation :
               Latest(b) < Latest(c) \/ (Latest(b) = Latest(c) /\ b <= c)
<1>1. Rotation \in SUBSET Nat /\ Rotation \subseteq Agents
  BY RoomAllowed DEF Rotation
<1> DEFINE Since == {Latest(a) + 1 : a \in Rotation}
<1>2. Since \in SUBSET Nat /\ Since # {}
  BY <1>1, LatestIsLast
<1>3. PICK n \in Since : \A m \in Since : n <= m
  BY <1>2, LeastOfNats
<1> DEFINE Longest == {a \in Rotation : Latest(a) + 1 = n}
<1>4. Longest \in SUBSET Nat /\ Longest # {}
  BY <1>1, <1>3
<1>5. PICK b \in Longest : \A c \in Longest : b <= c
  BY <1>4, LeastOfNats
<1>6. ASSUME NEW c \in Rotation
      PROVE  Latest(b) < Latest(c) \/ (Latest(b) = Latest(c) /\ b <= c)
  <2>1. Latest(b) \in Int /\ Latest(c) \in Int
    BY <1>1, <1>5, LatestIsLast
  <2>2. Latest(c) + 1 \in Since /\ Latest(b) + 1 = n
    BY <1>5
  <2>3. Latest(b) + 1 <= Latest(c) + 1
    BY <1>3, <2>2
  <2>4. CASE Latest(c) = Latest(b)
    <3>1. c \in Longest
      BY <2>2, <2>4
    <3> QED BY <1>5, <2>4, <3>1
  <2>5. CASE Latest(c) # Latest(b)
    BY <2>1, <2>3, <2>5
  <2> QED BY <2>4, <2>5
<1> QED BY <1>5, <1>6

\* Who is chosen is an agent, or nobody; unless it is the one all messages go
\* to, nobody only when there is no broker, and else one with the oldest last
\* message of all.
LEMMA ChosenIsOldest ==
    ASSUME TypeOK, Stamped
    PROVE  /\ Chosen \in Agents \cup {None}
           /\ setup.single \notin Rotation =>
                 /\ Rotation = {} => Chosen = None
                 /\ Rotation # {} => /\ Chosen \in Rotation
                                     /\ \A c \in Rotation : Latest(Chosen) <= Latest(c)
<1> USE DEF Chosen
<1>1. Rotation \subseteq Agents
  BY DEF Rotation
<1>2. CASE setup.single \in Rotation
  BY <1>1, <1>2
<1>3. CASE setup.single \notin Rotation /\ Rotation = {}
  BY <1>3
<1>4. CASE setup.single \notin Rotation /\ Rotation # {}
  <2>1. Chosen = CHOOSE b \in Rotation : \A c \in Rotation :
                     Latest(b) < Latest(c) \/ (Latest(b) = Latest(c) /\ b <= c)
    BY <1>4
  <2> HIDE DEF Chosen
  <2>2. /\ Chosen \in Rotation
        /\ \A c \in Rotation : Latest(Chosen) < Latest(c)
                               \/ (Latest(Chosen) = Latest(c) /\ Chosen <= c)
    BY <1>4, <2>1, SomebodyIsFirst, Zenon
  <2>3. ASSUME NEW c \in Rotation PROVE Latest(Chosen) <= Latest(c)
    <3>1. Latest(Chosen) \in Int /\ Latest(c) \in Int
      BY <1>1, <2>2, LatestIsLast
    <3> QED BY <2>2, <3>1
  <2> QED BY <1>1, <1>4, <2>2, <2>3
<1> QED BY <1>2, <1>3, <1>4
-----------------------------------------------------------------------------
\* The parts of a stored message.
LEMMA MessageParts ==
    ASSUME TypeOK, NEW k \in DOMAIN messages
    PROVE  /\ messages[k] \in Message /\ messages[k].at \in Nat
           /\ messages[k].said.kind \in Kind /\ messages[k].said.text \in Seq(Words)
           /\ messages[k].broker \in Agents \cup {None} /\ messages[k].member \in Members
           /\ k \in Nat /\ DOMAIN stage = DOMAIN messages /\ stage[k] \in Stage
<1>1. messages[k] \in Message
  BY DEF TypeOK
<1>2. DOMAIN stage = DOMAIN messages /\ stage[k] \in Stage /\ k \in Nat
  BY DEF TypeOK
<1> QED BY <1>1, <1>2, RoomAllowed DEF Message

\* A message that is stored is for the dealers when what was said is, and its
\* text is what was said.
LEMMA StoredSpeaksTrue ==
    ASSUME TypeOK, StoredAsSaid, NEW k \in DOMAIN messages
    PROVE  /\ ForDealers(messages[k].stored) <=> messages[k].said.kind \in DealersKinds
           /\ Parse(messages[k].stored).text = messages[k].said.text
<1>1. messages[k].said.kind \in Kind /\ messages[k].said.text \in Seq(Words)
  BY MessageParts
<1>2. messages[k].stored = Encode(messages[k].said.text, messages[k].said.kind)
  BY DEF StoredAsSaid
<1> QED BY <1>1, <1>2, ParseOfEncode, ForDealersWhenSaid

\* A post stays in turn while messages, roles and settings stay.
LEMMA InTurnStays ==
    ASSUME NEW p, InTurn(p), UNCHANGED <<messages, role, setup>>
    PROVE  InTurn(p)'
  BY DEF InTurn, HadSince

\* So do all posts, when no post is begun.
LEMMA PostsStay ==
    ASSUME PostsInTurn, UNCHANGED <<messages, role, setup>>,
           \A w \in Workers : work'[w] = work[w] \/ work'[w] = Idle
    PROVE  PostsInTurn'
<1> SUFFICES ASSUME NEW w \in Workers, work'[w] # Idle
             PROVE  (work[w].seen <= Len(messages) /\ InTurn(work[w]))'
  BY DEF PostsInTurn
<1>1. PICK p : p = work[w]
  OBVIOUS
<1>2. work'[w] = p /\ p.seen <= Len(messages) /\ InTurn(p)
  BY <1>1 DEF PostsInTurn
<1>3. InTurn(p)'
  BY <1>2, InTurnStays
<1> QED BY <1>2, <1>3 DEF InTurn, HadSince

\* A request begins: the broker is chosen from what it reads.
LEMMA BeginKeeps ==
    ASSUME IInv, NEW w \in Workers, NEW p \in Post, Start(w, p),
           p.seen = Len(messages), InTurn(p)
    PROVE  IInv'
<1> USE DEF IInv, Start
<1>1. TypeOK'
  BY DEF TypeOK
<1>2. (Stamped /\ StoredAsSaid /\ OnwardToDealers /\ SentIsOwn)'
  BY DEF Stamped, StoredAsSaid, OnwardToDealers, SentIsOwn
<1>3. PostsInTurn'
  <2> SUFFICES ASSUME NEW v \in Workers, work'[v] # Idle
               PROVE  (work[v].seen <= Len(messages) /\ InTurn(work[v]))'
    BY DEF PostsInTurn
  <2>1. PICK q : q = work'[v]
    OBVIOUS
  <2>2. q.seen <= Len(messages) /\ InTurn(q)
    <3>1. work \in [Workers -> Post \cup {Idle}] /\ Len(messages) \in Nat
      BY DEF TypeOK
    <3>2. CASE v = w
      BY <2>1, <3>1, <3>2
    <3>3. CASE v # w
      BY <2>1, <3>1, <3>3 DEF PostsInTurn
    <3> QED BY <3>2, <3>3
  <2>3. InTurn(q)'
    BY <2>2, InTurnStays
  <2> QED BY <2>1, <2>2, <2>3 DEF InTurn, HadSince
<1> QED BY <1>1, <1>2, <1>3

\* What a post that was given to a broker says of whose turn it was.
LEMMA NewPostInTurn ==
    ASSUME IInv, NEW u \in Users, NEW m \in Members, NEW speaker \in Users,
           NEW kind \in Kind, NEW text \in Texts
    PROVE  LET p == PostOf(u, m, speaker, kind, text) IN
           p \in Post /\ p.seen = Len(messages) /\ InTurn(p)
<1> DEFINE p == PostOf(u, m, speaker, kind, text)
<1> USE DEF IInv
<1>1. Rotation \subseteq Agents
  BY DEF Rotation
<1>2. /\ Chosen \in Agents \cup {None}
      /\ setup.single \notin Rotation =>
            /\ Rotation = {} => Chosen = None
            /\ Rotation # {} => /\ Chosen \in Rotation
                                /\ \A c \in Rotation : Latest(Chosen) <= Latest(c)
  BY ChosenIsOldest
<1>3. p \in Post
  <2>1. Len(messages) \in Nat
    BY DEF TypeOK
  <2> HIDE DEF Chosen, Rotation
  <2> QED BY <1>1, <1>2, <2>1 DEF PostOf, Post
<1>4. p.seen = Len(messages) /\ p.among = Rotation /\ p.broker = Chosen
  BY DEF PostOf
<1>5. InTurn(p)
  <2> HIDE DEF p
  <2> SUFFICES ASSUME setup.single \notin Rotation
               PROVE  /\ Chosen = None => Rotation = {}
                      /\ \A k \in DOMAIN messages, c \in Rotation :
                            messages[k].broker = Chosen => HadSince(c, k)
    BY <1>4 DEF InTurn
  <2>1. Chosen = None => Rotation = {}
    BY <1>1, <1>2, RoomAllowed DEF Users
  <2>2. ASSUME NEW k \in DOMAIN messages, NEW c \in Rotation,
               messages[k].broker = Chosen
        PROVE  HadSince(c, k)
    <3>1. Chosen \in Agents /\ c \in Agents /\ Latest(Chosen) <= Latest(c)
      BY <1>1, <1>2, <2>2
    <3>2. /\ Latest(Chosen) \in Int /\ Latest(c) \in Int
          /\ messages[k].at <= Latest(Chosen) /\ messages[k].at \in Nat
      BY <2>2, <3>1, LatestIsLast, MessageParts
    <3>3. PICK i \in DOMAIN messages :
              messages[i].broker = c /\ messages[i].at = Latest(c)
      BY <3>1, <3>2, LatestIsLast
    <3>4. messages[k].at <= messages[i].at /\ messages[i].at \in Nat /\ i \in Nat /\ k \in Nat
      BY <3>1, <3>2, <3>3, MessageParts
    <3>5. CASE i < k
      <4>1. i \in 1 .. k
        BY <3>5 DEF TypeOK
      <4>2. messages[i].at <= messages[k].at
        BY <4>1 DEF Stamped
      <4> QED BY <3>2, <3>3, <3>4, <4>2 DEF HadSince
    <3>6. CASE i >= k
      BY <3>3, <3>6 DEF HadSince
    <3> QED BY <3>4, <3>5, <3>6
  <2> QED BY <2>1, <2>2
<1> QED BY <1>3, <1>4, <1>5
-----------------------------------------------------------------------------
\* The audiences give kinds.
LEMMA SenderKinds ==
    ASSUME NEW audience PROVE SenderType(audience) \in Kind
  BY DEF SenderType, Kind

\* A message of a member, or for him, begins.
LEMMA MessageKeeps ==
    ASSUME IInv, NEW w \in Workers, NEW u \in Users, NEW m \in Members,
           NEW audience, NEW text \in Texts,
           BeginMessage(w, u, m, audience, text) \/ BeginCompat(w, u, m, audience, text)
    PROVE  IInv'
<1> DEFINE kind == SenderType(audience)
<1>1. kind \in Kind /\ m \in Users
  BY SenderKinds DEF Users
<1>2. PICK speaker \in Users : Start(w, PostOf(u, m, speaker, kind, text))
  BY <1>1 DEF BeginMessage, BeginCompat
<1> HIDE DEF kind
<1>3. PICK p : p = PostOf(u, m, speaker, kind, text)
  OBVIOUS
<1>4. p \in Post /\ p.seen = Len(messages) /\ InTurn(p)
  BY <1>1, <1>3, NewPostInTurn
<1>5. Start(w, p)
  BY <1>2, <1>3
<1> QED BY <1>4, <1>5, BeginKeeps

\* A reply of an agent begins: it is his own.
LEMMA ReplyKeeps ==
    ASSUME IInv, NEW w \in Workers, NEW a \in Agents, NEW m \in Members,
           NEW text \in Texts, BeginReply(w, a, m, text)
    PROVE  IInv'
<1>1. a \in Users /\ "broker" \in Kind
  BY DEF Users, Kind
<1>2. PICK q : q = PostOf(a, m, a, "broker", text)
  OBVIOUS
<1>3. q \in Post /\ q.seen = Len(messages)
  BY <1>1, <1>2, NewPostInTurn
<1>4. PICK p : p = [q EXCEPT !.broker = a, !.given = FALSE]
  OBVIOUS
<1>5. p \in Post /\ p.seen = q.seen /\ p.given = FALSE
  BY <1>3, <1>4 DEF Post
<1>6. Start(w, p)
  BY <1>2, <1>4 DEF BeginReply
<1> QED BY <1>3, <1>5, <1>6, BeginKeeps DEF InTurn

\* A reply of the credit union begins.
LEMMA CuReplyKeeps ==
    ASSUME IInv, NEW w \in Workers, NEW s \in Staff, NEW m \in Members,
           NEW text \in Texts, BeginCuReply(w, s, m, text)
    PROVE  IInv'
<1>1. s \in Users /\ "credit_union" \in Kind
  BY DEF Users, Kind
<1>2. PICK p : p = PostOf(s, m, s, "credit_union", text)
  OBVIOUS
<1>3. p \in Post /\ p.seen = Len(messages) /\ InTurn(p)
  BY <1>1, <1>2, NewPostInTurn
<1>4. Start(w, p)
  BY <1>2 DEF BeginCuReply
<1> QED BY <1>3, <1>4, BeginKeeps

\* A request fails: nothing is stored.
LEMMA RollbackKeeps ==
    ASSUME IInv, NEW w \in Workers, Rollback(w)
    PROVE  IInv'
<1> USE DEF IInv, Rollback
<1>1. TypeOK'
  BY DEF TypeOK
<1>2. (Stamped /\ StoredAsSaid /\ OnwardToDealers /\ SentIsOwn)'
  BY DEF Stamped, StoredAsSaid, OnwardToDealers, SentIsOwn
<1>3. work \in [Workers -> Post \cup {Idle}]
  BY DEF TypeOK
<1>4. PostsInTurn'
  BY <1>3, PostsStay
<1> QED BY <1>1, <1>2, <1>4

\* A post is not idle.
LEMMA PostIsBusy ==
    ASSUME TypeOK, NEW w \in Workers, work[w] # Idle
    PROVE  work[w] \in Post
  BY DEF TypeOK

\* A request commits: what it stores is what was said, stamped with the second;
\* a post that has not seen it is out of turn from here on.
LEMMA CommitKeeps ==
    ASSUME IInv, NEW w \in Workers, Commit(w)
    PROVE  IInv'
<1> USE DEF IInv
<1>1. PICK p \in Post : p = work[w]
  BY PostIsBusy DEF Commit
<1>2. PICK n : n = Len(messages)
  OBVIOUS
<1>3. n \in Nat /\ messages \in Seq(Message) /\ stage \in Seq(Stage) /\ Len(stage) = n
  BY <1>2 DEF TypeOK
<1>4. /\ p.said.kind \in Kind /\ p.said.text \in Seq(Words) /\ p.said \in [kind : Kind, text : Texts]
      /\ p.member \in Members /\ p.speaker \in Users /\ p.broker \in Agents \cup {None}
  BY RoomAllowed DEF Post
<1>5. PICK stored : stored = Encode(p.said.text, p.said.kind)
  OBVIOUS
<1>6. stored \in Seq(Words) /\ (ForDealers(stored) <=> p.said.kind \in DealersKinds)
  BY <1>4, <1>5, ParseOfEncode, ForDealersWhenSaid
<1>7. PICK msg : msg = [member |-> p.member, stored |-> stored, broker |-> p.broker,
                        at |-> now, said |-> p.said]
  OBVIOUS
<1>8. /\ msg \in Message /\ msg.at = now /\ msg.said = p.said /\ msg.stored = stored
      /\ msg.broker = p.broker
  BY <1>4, <1>6, <1>7, RoomAllowed DEF Message, TypeOK
<1>9. PICK pc : pc = FirstStage(p, stored)
  OBVIOUS
<1>10. /\ pc \in {"lookup", "queued", "done"}
       /\ pc # "done" => p.said.kind \in DealersKinds
  BY <1>6, <1>9 DEF FirstStage, HookStage
<1>11. PICK s : s = [pc |-> pc, tries |-> 0, speaker |-> p.speaker]
  OBVIOUS
<1>12. s \in Stage /\ s.pc = pc
  BY <1>4, <1>10, <1>11, RoomAllowed DEF Stage
<1>13. /\ messages' = Append(messages, msg) /\ stage' = Append(stage, s)
       /\ work' = [work EXCEPT ![w] = Idle] /\ UNCHANGED <<role, sent, now, setup>>
       /\ Len(messages) < setup.most
  BY <1>1, <1>5, <1>7, <1>9, <1>11 DEF Commit
<1>14. /\ messages' \in Seq(Message) /\ Len(messages') = n + 1
       /\ \A k \in 1 .. n : messages'[k] = messages[k]
       /\ messages'[n + 1] = msg
  BY <1>2, <1>3, <1>8, <1>13
<1>15. /\ stage' \in Seq(Stage) /\ Len(stage') = n + 1
       /\ \A k \in 1 .. n : stage'[k] = stage[k]
       /\ stage'[n + 1] = s
  BY <1>3, <1>12, <1>13
<1>16. DOMAIN messages = 1 .. n /\ DOMAIN messages' = 1 .. n + 1
  BY <1>2, <1>3, <1>14
<1>17. TypeOK'
  <2>1. setup.most \in Nat
    BY RoomAllowed DEF TypeOK, Setup
  <2>2. Len(messages') <= setup'.most
    BY <2>1, <1>2, <1>3, <1>13, <1>14
  <2>3. \A d \in sent' : d.msg \in DOMAIN messages' /\ d.channel \in {"conversation", "webhook"}
    BY <1>3, <1>13, <1>16 DEF TypeOK
  <2> QED BY <2>2, <2>3, <1>13, <1>14, <1>15 DEF TypeOK
<1>18. Stamped'
  <2> SUFFICES ASSUME NEW k \in 1 .. n + 1
               PROVE  /\ messages'[k].at <= now
                      /\ \A i \in 1 .. k : messages'[i].at <= messages'[k].at
    BY <1>13, <1>16 DEF Stamped
  <2>1. \A i \in 1 .. n : messages'[i].at <= now /\ messages[i].at \in Nat
    BY <1>14, <1>16, MessageParts DEF Stamped
  <2>2. now \in Nat
    BY RoomAllowed DEF TypeOK
  <2>3. CASE k = n + 1
    BY <2>1, <2>2, <2>3, <1>3, <1>8, <1>14
  <2>4. CASE k \in 1 .. n
    <3>1. messages'[k] = messages[k] /\ \A i \in 1 .. k : messages'[i] = messages[i]
      BY <2>4, <1>3, <1>14
    <3> QED BY <3>1, <2>1, <2>4, <1>16 DEF Stamped
  <2> QED BY <2>3, <2>4, <1>3
<1>19. StoredAsSaid'
  <2> SUFFICES ASSUME NEW k \in 1 .. n + 1
               PROVE  messages'[k].stored
                          = Encode(messages'[k].said.text, messages'[k].said.kind)
    BY <1>16 DEF StoredAsSaid, Encode
  <2>1. CASE k = n + 1
    BY <2>1, <1>5, <1>8, <1>14
  <2>2. CASE k \in 1 .. n
    BY <2>2, <1>14, <1>16 DEF StoredAsSaid
  <2> QED BY <2>1, <2>2, <1>3
<1>20. OnwardToDealers'
  <2> SUFFICES ASSUME NEW k \in 1 .. n + 1,
                      stage'[k].pc \in {"lookup", "post", "again", "queued", "attempt"}
               PROVE  messages'[k].said.kind \in DealersKinds
    BY <1>16 DEF OnwardToDealers
  <2>1. CASE k = n + 1
    BY <2>1, <1>8, <1>10, <1>12, <1>14, <1>15
  <2>2. CASE k \in 1 .. n
    BY <2>2, <1>14, <1>15, <1>16 DEF OnwardToDealers
  <2> QED BY <2>1, <2>2, <1>3
<1>21. SentIsOwn'
  <2> SUFFICES ASSUME NEW d \in sent
               PROVE  /\ messages'[d.msg].said.kind \in DealersKinds
                      /\ d.text = messages'[d.msg].said.text
                      /\ d.channel = "webhook" => d.to = messages'[d.msg].member
    BY <1>13 DEF SentIsOwn
  <2>1. d.msg \in 1 .. n
    BY <1>16 DEF TypeOK
  <2> QED BY <2>1, <1>14 DEF SentIsOwn
<1>22. PostsInTurn'
  <2> SUFFICES ASSUME NEW v \in Workers, work'[v] # Idle
               PROVE  (work[v].seen <= Len(messages) /\ InTurn(work[v]))'
    BY DEF PostsInTurn
  <2>1. PICK q : q = work'[v]
    OBVIOUS
  <2>2. q = work[v] /\ q \in Post
    <3>1. work \in [Workers -> Post \cup {Idle}]
      BY DEF TypeOK
    <3> QED BY <2>1, <3>1, <1>13
  <2>3. q.seen <= n /\ q.seen \in Nat
    BY <2>1, <2>2, <1>2 DEF PostsInTurn, Post
  <2>4. q.seen <= Len(messages') /\ q.seen # Len(messages')
    BY <2>3, <1>3, <1>14
  <2> QED BY <2>1, <2>4 DEF InTurn
<1> QED BY <1>17, <1>18, <1>19, <1>20, <1>21, <1>22
-----------------------------------------------------------------------------
\* What leaves of message k is for the dealers and in its author's words.
LEMMA LeavesIsOwn ==
    ASSUME TypeOK, StoredAsSaid, SentIsOwn, UNCHANGED messages,
           NEW k \in DOMAIN messages, messages[k].said.kind \in DealersKinds,
           NEW channel \in {"conversation", "webhook"}, NEW to,
           channel = "webhook" => to = messages[k].member,
           Leaves(k, channel, to)
    PROVE  /\ SentIsOwn'
           /\ \A d \in sent' : /\ d.msg \in DOMAIN messages
                               /\ d.channel \in {"conversation", "webhook"}
<1>1. PICK text : text = Parse(messages[k].stored).text
  OBVIOUS
<1>2. text = messages[k].said.text
  BY <1>1, StoredSpeaksTrue
<1>3. PICK e : e = [msg |-> k, channel |-> channel, to |-> to, text |-> text]
  OBVIOUS
<1>4. sent' = sent \cup {e}
  BY <1>1, <1>3 DEF Leaves
<1>5. e.msg = k /\ e.channel = channel /\ e.to = to /\ e.text = text
  BY <1>3
<1> QED BY <1>2, <1>4, <1>5 DEF SentIsOwn, TypeOK

\* A message goes a stage on; anything but an end needs it to be for the dealers.
LEMMA StageKeeps ==
    ASSUME IInv, NEW k \in DOMAIN messages, NEW s \in Stage,
           s.pc \in {"done", "lost"} \/ messages[k].said.kind \in DealersKinds,
           stage' = [stage EXCEPT ![k] = s], UNCHANGED <<messages, work, role, now, setup>>,
           SentIsOwn',
           \A d \in sent' : d.msg \in DOMAIN messages /\ d.channel \in {"conversation", "webhook"}
    PROVE  IInv'
<1> USE DEF IInv
<1>1. /\ stage' \in Seq(Stage) /\ Len(stage') = Len(stage) /\ stage'[k] = s
      /\ \A j \in DOMAIN messages : j # k => stage'[j] = stage[j]
  BY DEF TypeOK
<1>2. TypeOK'
  BY <1>1 DEF TypeOK
<1>3. (Stamped /\ StoredAsSaid)'
  BY DEF Stamped, StoredAsSaid, Encode
<1>4. OnwardToDealers'
  BY <1>1 DEF OnwardToDealers
<1>5. PostsInTurn'
  BY PostsStay
<1> QED BY <1>2, <1>3, <1>4, <1>5

\* Nothing leaves when sent stays.
LEMMA SentStays ==
    ASSUME TypeOK, SentIsOwn, UNCHANGED <<messages, sent>>
    PROVE  /\ SentIsOwn'
           /\ \A d \in sent' : /\ d.msg \in DOMAIN messages
                               /\ d.channel \in {"conversation", "webhook"}
  BY DEF SentIsOwn, TypeOK

\* A message on its way is for the dealers.
LEMMA OnwardIsForDealers ==
    ASSUME IInv, NEW k \in DOMAIN messages,
           stage[k].pc \in {"lookup", "post", "again", "queued", "attempt"}
    PROVE  messages[k].said.kind \in DealersKinds
  BY DEF IInv, OnwardToDealers

\* Writing pc gives a stage.
LEMMA StageWritten ==
    ASSUME NEW s \in Stage,
           NEW pc \in {"lookup", "post", "again", "queued", "attempt", "done", "lost"}
    PROVE  [s EXCEPT !.pc = pc] \in Stage /\ [s EXCEPT !.pc = pc].pc = pc
  BY DEF Stage

\* Goto writes the stage of one message.
LEMMA GotoKeeps ==
    ASSUME IInv, NEW k \in DOMAIN messages,
           NEW pc \in {"lookup", "post", "again", "queued", "attempt", "done", "lost"},
           messages[k].said.kind \in DealersKinds,
           Goto(k, pc), UNCHANGED <<messages, work, role, now, setup>>, SentIsOwn',
           \A d \in sent' : d.msg \in DOMAIN messages /\ d.channel \in {"conversation", "webhook"}
    PROVE  IInv'
<1>1. PICK s : s = [stage[k] EXCEPT !.pc = pc]
  OBVIOUS
<1>2. s \in Stage
  BY <1>1, MessageParts, StageWritten DEF IInv
<1>3. stage' = [stage EXCEPT ![k] = s]
  BY <1>1 DEF Goto
<1> QED BY <1>2, <1>3, StageKeeps

\* The lookup of the conversation is answered.
LEMMA LookupKeeps ==
    ASSUME IInv, NEW k \in DOMAIN messages, NEW found \in BOOLEAN, Lookup(k, found)
    PROVE  IInv'
<1>1. messages[k].said.kind \in DealersKinds
  BY OnwardIsForDealers DEF Lookup
<1>2. PICK pc : pc = IF found THEN "post" ELSE HookStage(messages[k].stored)
  OBVIOUS
<1>3. pc \in {"post", "queued", "done"}
  BY <1>2 DEF HookStage
<1>4. Goto(k, pc) /\ UNCHANGED <<messages, work, role, sent, now, setup>>
  BY <1>2 DEF Lookup
<1> QED BY <1>1, <1>3, <1>4, GotoKeeps, SentStays DEF IInv

\* The line is posted to the conversation.
LEMMA PostInboundKeeps ==
    ASSUME IInv, NEW k \in DOMAIN messages, NEW received \in BOOLEAN,
           NEW answered \in BOOLEAN, PostInbound(k, received, answered)
    PROVE  IInv'
<1>1. messages[k].said.kind \in DealersKinds
  BY OnwardIsForDealers DEF PostInbound
<1>2. PICK pc : pc = IF ~answered /\ stage[k].pc = "post" THEN "again"
                     ELSE HookStage(messages[k].stored)
  OBVIOUS
<1>3. pc \in {"again", "queued", "done"}
  BY <1>2 DEF HookStage
<1>4. /\ Goto(k, pc) /\ UNCHANGED <<messages, work, role, now, setup>>
      /\ Leaves(k, "conversation", stage[k].speaker) \/ UNCHANGED sent
  BY <1>2 DEF PostInbound
<1>5. /\ SentIsOwn'
      /\ \A d \in sent' : d.msg \in DOMAIN messages /\ d.channel \in {"conversation", "webhook"}
  <2>1. CASE UNCHANGED sent
    BY <1>4, <2>1, SentStays DEF IInv
  <2>2. PICK to : to = stage[k].speaker
    OBVIOUS
  <2>3. CASE Leaves(k, "conversation", to)
    BY <1>1, <1>4, <2>3, LeavesIsOwn DEF IInv
  <2> QED BY <1>4, <2>1, <2>2, <2>3
<1> QED BY <1>1, <1>3, <1>4, <1>5, GotoKeeps

\* The webhook's task reads the message again.
LEMMA RunTaskKeeps ==
    ASSUME IInv, NEW k \in DOMAIN messages, RunTask(k)
    PROVE  IInv'
<1>1. messages[k].said.kind \in DealersKinds
  BY OnwardIsForDealers DEF RunTask
<1>2. PICK pc : pc = IF ForDealers(messages[k].stored) THEN "attempt" ELSE "done"
  OBVIOUS
<1>3. pc \in {"attempt", "done"}
  BY <1>2
<1>4. Goto(k, pc) /\ UNCHANGED <<messages, work, role, sent, now, setup>>
  BY <1>2 DEF RunTask
<1> QED BY <1>1, <1>3, <1>4, GotoKeeps, SentStays DEF IInv

\* An attempt of the webhook, of which there are no more than MaxAttempts.
LEMMA AttemptKeeps ==
    ASSUME IInv, NEW k \in DOMAIN messages, NEW received \in BOOLEAN,
           NEW answered \in BOOLEAN, NEW again \in BOOLEAN,
           Attempt(k, received, answered, again)
    PROVE  IInv'
<1>1. messages[k].said.kind \in DealersKinds
  BY OnwardIsForDealers DEF Attempt
<1>2. stage[k] \in Stage /\ stage[k].tries \in 0 .. MaxAttempts - 1
  BY MessageParts DEF IInv, Stage
<1>3. /\ UNCHANGED <<messages, work, role, now, setup>>
      /\ Leaves(k, "webhook", messages[k].member) \/ UNCHANGED sent
  BY DEF Attempt
<1>4. /\ SentIsOwn'
      /\ \A d \in sent' : d.msg \in DOMAIN messages /\ d.channel \in {"conversation", "webhook"}
  <2>1. CASE UNCHANGED sent
    BY <1>3, <2>1, SentStays DEF IInv
  <2>2. PICK to : to = messages[k].member
    OBVIOUS
  <2>3. CASE Leaves(k, "webhook", to)
    BY <1>1, <1>3, <2>2, <2>3, LeavesIsOwn DEF IInv
  <2> QED BY <1>3, <2>1, <2>2, <2>3
<1>5. CASE ~again
  <2>1. Goto(k, "done")
    BY <1>5 DEF Attempt, Goto
  <2> QED BY <1>1, <1>3, <1>4, <2>1, GotoKeeps
<1>6. CASE again
  <2>1. PICK s : s = [stage[k] EXCEPT !.tries = @ + 1]
    OBVIOUS
  <2>2. stage[k].tries + 1 \in 0 .. MaxAttempts - 1
    BY <1>2, <1>6, RoomAllowed DEF Attempt
  <2>3. s \in Stage
    BY <1>2, <2>1, <2>2 DEF Stage
  <2>4. stage' = [stage EXCEPT ![k] = s]
    BY <1>6, <2>1 DEF Attempt
  <2> QED BY <1>1, <1>3, <1>4, <2>3, <2>4, StageKeeps
<1> QED BY <1>5, <1>6

\* The process stops.
LEMMA CrashKeeps ==
    ASSUME IInv, Crash
    PROVE  IInv'
<1> USE DEF IInv
<1>1. UNCHANGED <<messages, role, sent, now, setup>> /\ work' = [w \in Workers |-> Idle]
  BY DEF Crash
<1>2. PICK n : n = Len(messages)
  OBVIOUS
<1>3. n \in Nat /\ DOMAIN stage = 1 .. n /\ DOMAIN messages = 1 .. n
  BY <1>2 DEF TypeOK
<1>4. stage' = [k \in 1 .. n |-> IF stage[k].pc = "done" THEN stage[k]
                                 ELSE [stage[k] EXCEPT !.pc = "lost"]]
  BY <1>3 DEF Crash
<1>5. ASSUME NEW k \in 1 .. n
      PROVE  stage'[k] \in Stage /\ stage'[k].pc \in {"done", "lost"}
  <2>1. stage[k] \in Stage
    BY <1>3, MessageParts
  <2>2. [stage[k] EXCEPT !.pc = "lost"] \in Stage /\ [stage[k] EXCEPT !.pc = "lost"].pc = "lost"
    BY <2>1, StageWritten
  <2> QED BY <1>4, <2>1, <2>2
<1>6. stage' \in Seq(Stage) /\ Len(stage') = n
  <2>1. stage' \in [1 .. n -> Stage]
    BY <1>4, <1>5
  <2> QED BY <1>3, <2>1
<1>7. TypeOK'
  BY <1>1, <1>2, <1>6 DEF TypeOK
<1>8. (Stamped /\ StoredAsSaid /\ SentIsOwn)'
  BY <1>1 DEF Stamped, StoredAsSaid, SentIsOwn, Encode
<1>9. OnwardToDealers'
  BY <1>1, <1>3, <1>5 DEF OnwardToDealers
<1>10. PostsInTurn'
  BY <1>1, PostsStay
<1> QED BY <1>7, <1>8, <1>9, <1>10

\* A second passes.
LEMMA TickKeeps ==
    ASSUME IInv, Tick
    PROVE  IInv'
<1> USE DEF IInv, Tick
<1>1. now \in Nat /\ now' = now + 1 /\ now < MaxTime /\ MaxTime \in Nat
  BY RoomAllowed DEF TypeOK
<1>2. TypeOK'
  BY <1>1 DEF TypeOK
<1>3. Stamped'
  BY <1>1, MessageParts DEF Stamped
<1>4. (StoredAsSaid /\ SentIsOwn /\ OnwardToDealers)'
  BY DEF StoredAsSaid, SentIsOwn, Encode, OnwardToDealers
<1>5. PostsInTurn'
  BY PostsStay
<1> QED BY <1>2, <1>3, <1>4, <1>5

\* The state stays as it is.
LEMMA StutterKeeps ==
    ASSUME IInv, UNCHANGED vars
    PROVE  IInv'
<1> USE DEF IInv, vars
<1>1. TypeOK'
  BY DEF TypeOK
<1>2. (Stamped /\ StoredAsSaid /\ SentIsOwn /\ OnwardToDealers)'
  BY DEF Stamped, StoredAsSaid, SentIsOwn, Encode, OnwardToDealers
<1>3. PostsInTurn'
  BY PostsStay
<1> QED BY <1>1, <1>2, <1>3
-----------------------------------------------------------------------------
\* An account's role changes; who is gone stays gone.
LEMMA ChangeRoleKeeps ==
    ASSUME IInv, NEW a \in Agents, NEW r \in setup.roles, ChangeRole(a, r)
    PROVE  IInv'
<1> USE DEF IInv, ChangeRole
<1>1. TypeOK'
  <2>1. r \in Role
    BY RoomAllowed DEF TypeOK, Setup
  <2> QED BY <2>1 DEF TypeOK
<1>2. (Stamped /\ StoredAsSaid /\ SentIsOwn /\ OnwardToDealers)'
  BY DEF Stamped, StoredAsSaid, SentIsOwn, Encode, OnwardToDealers
<1>3. \A c \in Agents : role'[c] # "gone" => role[c] # "gone"
  BY DEF TypeOK
<1>4. PostsInTurn'
  <2> SUFFICES ASSUME NEW v \in Workers, work'[v] # Idle
               PROVE  (work[v].seen <= Len(messages) /\ InTurn(work[v]))'
    BY DEF PostsInTurn
  <2>1. PICK q \in Post : q = work[v]
    BY PostIsBusy
  <2>2. q.seen <= Len(messages) /\ InTurn(q) /\ work'[v] = q /\ q.among \subseteq Agents
    BY <2>1 DEF PostsInTurn, Post
  <2> QED BY <2>2, <1>3 DEF InTurn, HadSince
<1> QED BY <1>1, <1>2, <1>4

\* An account is deleted: its messages are given to nobody, and say the same.
LEMMA DeleteAgentKeeps ==
    ASSUME IInv, NEW a \in Agents, DeleteAgent(a)
    PROVE  IInv'
<1> USE DEF IInv
<1>1. /\ UNCHANGED <<stage, work, sent, now, setup>>
      /\ role' = [role EXCEPT ![a] = "gone"]
  BY DEF DeleteAgent
<1>2. PICK n : n = Len(messages)
  OBVIOUS
<1>3. n \in Nat /\ DOMAIN messages = 1 .. n
  BY <1>2 DEF TypeOK
<1>4. messages' = [k \in 1 .. n |-> IF messages[k].broker = a
                                    THEN [messages[k] EXCEPT !.broker = None]
                                    ELSE messages[k]]
  BY <1>3 DEF DeleteAgent
<1>5. ASSUME NEW k \in 1 .. n
      PROVE  /\ messages'[k] \in Message
             /\ messages'[k].broker = IF messages[k].broker = a THEN None ELSE messages[k].broker
             /\ messages'[k].at = messages[k].at /\ messages'[k].said = messages[k].said
             /\ messages'[k].member = messages[k].member
             /\ messages'[k].stored = messages[k].stored
  <2>1. PICK m \in Message : m = messages[k]
    BY <1>3, MessageParts
  <2>2. messages'[k] = IF m.broker = a THEN [m EXCEPT !.broker = None] ELSE m
    BY <1>4, <2>1
  <2>3. PICK e : e = [m EXCEPT !.broker = None]
    OBVIOUS
  <2>4. /\ e \in Message /\ e.broker = None /\ e.at = m.at /\ e.said = m.said
        /\ e.member = m.member /\ e.stored = m.stored
    BY <2>3 DEF Message
  <2> QED BY <2>1, <2>2, <2>3, <2>4
<1>6. messages' \in Seq(Message) /\ Len(messages') = n /\ DOMAIN messages' = 1 .. n
  <2>1. messages' \in [1 .. n -> Message]
    BY <1>4, <1>5
  <2> QED BY <1>3, <2>1
<1>7. TypeOK'
  BY <1>1, <1>2, <1>3, <1>6 DEF TypeOK
<1>8. Stamped'
  BY <1>1, <1>3, <1>5, <1>6 DEF Stamped
<1>9. StoredAsSaid'
  BY <1>3, <1>5, <1>6 DEF StoredAsSaid, Encode
<1>10. OnwardToDealers'
  BY <1>1, <1>3, <1>5, <1>6 DEF OnwardToDealers
<1>11. SentIsOwn'
  <2> SUFFICES ASSUME NEW d \in sent
               PROVE  /\ messages'[d.msg].said.kind \in DealersKinds
                      /\ d.text = messages'[d.msg].said.text
                      /\ d.channel = "webhook" => d.to = messages'[d.msg].member
    BY <1>1 DEF SentIsOwn
  <2>1. d.msg \in 1 .. n
    BY <1>3 DEF TypeOK
  <2> QED BY <2>1, <1>5 DEF SentIsOwn
<1>12. PostsInTurn'
  <2> SUFFICES ASSUME NEW v \in Workers, work'[v] # Idle
               PROVE  (work[v].seen <= Len(messages) /\ InTurn(work[v]))'
    BY DEF PostsInTurn
  <2>1. PICK q \in Post : q = work[v]
    BY <1>1, PostIsBusy
  <2>2. q.seen <= n /\ InTurn(q) /\ work'[v] = q /\ q.among \subseteq Agents
    BY <1>1, <1>2, <2>1 DEF PostsInTurn, Post
  <2> SUFFICES ASSUME q.given, setup.single \notin q.among, q.seen = n
               PROVE  /\ q.broker = None => q.among = {}
                      /\ \A k \in 1 .. n, c \in q.among :
                            (messages'[k].broker = q.broker /\ role'[c] # "gone")
                                => HadSince(c, k)'
    BY <1>1, <1>6, <2>2 DEF InTurn
  <2>3. /\ q.broker = None => q.among = {}
        /\ \A k \in 1 .. n, c \in q.among :
              (messages[k].broker = q.broker /\ role[c] # "gone") => HadSince(c, k)
    BY <1>2, <1>3, <2>2 DEF InTurn
  <2>4. ASSUME NEW k \in 1 .. n, NEW c \in q.among,
               messages'[k].broker = q.broker, role'[c] # "gone"
        PROVE  HadSince(c, k)'
    <3>1. c \in Agents /\ c # a /\ role[c] # "gone"
      BY <1>1, <2>2, <2>4 DEF TypeOK
    <3>2. q.broker # None
      BY <2>3, <2>4
    <3>3. messages[k].broker = q.broker
      BY <1>5, <2>4, <3>2
    <3>4. PICK i \in 1 .. n : messages[i].broker = c /\ (i >= k \/ messages[i].at = messages[k].at)
      BY <1>3, <2>3, <3>1, <3>3 DEF HadSince
    <3>5. messages'[i].broker = c /\ (i >= k \/ messages'[i].at = messages'[k].at)
      BY <1>5, <3>1, <3>4
    <3> QED BY <1>6, <3>5 DEF HadSince
  <2> QED BY <2>3, <2>4
<1> QED BY <1>7, <1>8, <1>9, <1>10, <1>11, <1>12
-----------------------------------------------------------------------------
\* The room starts empty.
LEMMA InitIInv == Init => IInv
<1> SUFFICES ASSUME Init PROVE IInv
  OBVIOUS
<1> USE DEF Init
<1>1. setup.most \in Nat /\ setup.roles \subseteq Role
  BY RoomAllowed DEF Setup
<1>2. TypeOK
  <2>1. role \in [Agents -> Role \cup {"gone"}]
    BY <1>1
  <2> QED BY <1>1, <2>1, RoomAllowed DEF TypeOK
<1>3. Stamped /\ StoredAsSaid /\ OnwardToDealers /\ SentIsOwn
  BY DEF Stamped, StoredAsSaid, OnwardToDealers, SentIsOwn
<1>4. PostsInTurn
  BY DEF PostsInTurn
<1> QED BY <1>2, <1>3, <1>4 DEF IInv

\* Every step keeps the invariant.
LEMMA StepIInv == IInv /\ [Next]_vars => IInv'
<1> SUFFICES ASSUME IInv, [Next]_vars PROVE IInv'
  OBVIOUS
<1>1. setup.busy \subseteq Workers /\ setup.texts \subseteq Texts /\ setup.writers \subseteq Users
  BY RoomAllowed DEF IInv, TypeOK, Setup
<1>2. ASSUME NEW w \in setup.busy, NEW m \in Members, NEW t \in setup.texts,
             NEW u \in setup.writers, NEW audience \in setup.audiences,
             BeginMessage(w, u, m, audience, t) \/ BeginCompat(w, u, m, audience, t)
      PROVE  IInv'
  BY <1>1, <1>2, MessageKeeps
<1>3. ASSUME NEW w \in setup.busy, NEW m \in Members, NEW t \in setup.texts,
             NEW a \in Agents \cap setup.writers, BeginReply(w, a, m, t)
      PROVE  IInv'
  BY <1>1, <1>3, ReplyKeeps
<1>4. ASSUME NEW w \in setup.busy, NEW m \in Members, NEW t \in setup.texts,
             NEW s \in Staff \cap setup.writers, BeginCuReply(w, s, m, t)
      PROVE  IInv'
  BY <1>1, <1>4, CuReplyKeeps
<1>5. ASSUME NEW w \in setup.busy, Commit(w) \/ Rollback(w) PROVE IInv'
  BY <1>1, <1>5, CommitKeeps, RollbackKeeps
<1>6. ASSUME NEW k \in DOMAIN messages, NEW found \in BOOLEAN, Lookup(k, found)
      PROVE  IInv'
  BY <1>6, LookupKeeps
<1>7. ASSUME NEW k \in DOMAIN messages, NEW received \in BOOLEAN, NEW answered \in BOOLEAN,
             \/ PostInbound(k, received, answered)
             \/ \E again \in BOOLEAN : Attempt(k, received, answered, again)
      PROVE  IInv'
  BY <1>7, PostInboundKeeps, AttemptKeeps
<1>8. ASSUME NEW k \in DOMAIN messages, RunTask(k) PROVE IInv'
  BY <1>8, RunTaskKeeps
<1>9. ASSUME NEW a \in Agents, DeleteAgent(a) PROVE IInv'
  BY <1>9, DeleteAgentKeeps
<1>10. ASSUME NEW a \in Agents, NEW r \in setup.roles, ChangeRole(a, r)
       PROVE  IInv'
  BY <1>10, ChangeRoleKeeps
<1>11. CASE Crash \/ Tick \/ UNCHANGED vars
  BY <1>11, CrashKeeps, TickKeeps, StutterKeeps
<1> QED BY <1>2, <1>3, <1>4, <1>5, <1>6, <1>7, <1>8, <1>9, <1>10, <1>11 DEF Next

\* The inductive invariant holds.
THEOREM Invariance == Spec => []IInv
  BY InitIInv, StepIInv, PTL DEF Spec

\* Messages, posts and stages have their types; messages and attempts stay
\* within their bounds.
THEOREM TypeCorrect == Spec => []TypeOK
  BY Invariance, PTL DEF IInv

\* What leaves the room is for the dealers and in its author's words, whatever
\* the words are, and a thread is read by those it concerns.
THEOREM RoomIsDiscreet == Spec => []RoomKeepsItsOwn
<1>1. IInv => RoomKeepsItsOwn
  <2> SUFFICES ASSUME IInv PROVE RoomKeepsItsOwn
    OBVIOUS
  <2>1. \A d \in sent : LET m == messages[d.msg] IN
            /\ m.said.kind \in {"customer", "customer_broker"}
            /\ d.text = m.said.text
            /\ d.channel = "webhook" => d.to = m.member
    BY DEF IInv, SentIsOwn, DealersKinds
  <2>2. ASSUME NEW u \in Users \ {a \in Agents : role[a] \in DealersSide},
               NEW m \in Members \cup {None}, NEW k \in Inbox(u, m)
        PROVE  u = messages[k].member \/ <<u, messages[k].member>> \in Linked
    BY <2>2, RoomAllowed DEF Inbox, Scope
  <2> QED BY <2>1, <2>2 DEF RoomKeepsItsOwn
<1> QED BY <1>1, Invariance, PTL

\* Brokers take turns: a broker is passed over only for messages of the second
\* he had his last one in, unless messages were stored while one was chosen.
THEOREM TurnsAreTaken == Spec => BrokersTakeTurns
<1> DEFINE Turn == \A w \in Workers :
          LET p == work[w] IN
          (/\ p # Idle /\ Len(messages') > Len(messages) /\ work'[w] = Idle
           /\ p.given /\ setup.single \notin p.among
           /\ p.seen = Len(messages)) =>
             \A k \in DOMAIN messages : messages[k].broker = p.broker =>
                \A c \in {a \in p.among : role[a] # "gone"} :
                   \E i \in DOMAIN messages :
                      /\ messages[i].broker = c
                      /\ i >= k \/ messages[i].at = messages[k].at
<1>1. IInv => Turn
  BY DEF IInv, PostsInTurn, InTurn, HadSince
<1> HIDE DEF Turn
<1>2. IInv => [Turn]_vars
  BY <1>1
<1>3. Spec => [][Turn]_vars
  BY <1>2, Invariance, PTL
<1> QED BY <1>3 DEF BrokersTakeTurns, Turn
=============================================================================
