------------------------- MODULE MockTransportProofs -------------------------
(***************************************************************************)
(* Proofs about the kayak mock transport, for every set of callers and    *)
(* deadlines, with or without a responder.                                 *)
(***************************************************************************)
EXTENDS MockTransport, SequenceTheorems, FiniteSetTheorems, TLAPS

\* The callers that have made their request.
Requested == {c \in Clients : pc[c] # "idle"}

\* The callers in the put-back loop (line 165) and the response each holds.
Checking == {c \in Clients : pc[c] = "check"}
HeldIDs == {held[c] : c \in Checking}

(***************************************************************************)
(* The inductive invariant.  Request IDs are fresh and each caller's is   *)
(* its own.  An ID is in queue until it is served, and after that in       *)
(* waitQueue or the hands of one checking caller, never in two places.     *)
(* A caller still waiting has not given up, so only an ID whose caller    *)
(* gave up is ever dropped.  Hence a served response of a waiting caller   *)
(* stays where it can be found exactly once.                               *)
(***************************************************************************)
\* Request IDs: 1..reqSeq, one per caller that made its request.
IDs ==
    /\ reqSeq \in Nat
    /\ \A c \in Clients : pc[c] = "idle" <=> reqID[c] = NoID
    /\ \A c \in Requested : reqID[c] \in 1..reqSeq
    /\ \A c, d \in Requested : reqID[c] = reqID[d] => c = d

\* Where an ID can be: queue before it is served, waitQueue or one caller's
\* hands after.
Places ==
    /\ Range(queue) \subseteq 1..reqSeq
    /\ Range(queue) \cap responded = {}
    /\ responded \subseteq 1..reqSeq
    /\ Range(waitQueue) \subseteq responded
    /\ HeldIDs \subseteq responded
    /\ giveUp \subseteq 1..reqSeq

\* No ID is in two places at once.
Unique ==
    /\ IsInjective(queue)
    /\ IsInjective(waitQueue)
    /\ HeldIDs \cap Range(waitQueue) = {}
    /\ \A c, d \in Checking : held[c] = held[d] => c = d

\* A caller still waiting has not given up, and its served response is in
\* waitQueue or held by a checking caller.
Waiting ==
    \A c \in Clients :
        pc[c] \in {"wait", "check"} =>
            /\ reqID[c] \notin giveUp
            /\ reqID[c] \in responded =>
                   reqID[c] \in Range(waitQueue) \cup HeldIDs

IInv == TypeOK /\ IDs /\ Places /\ Unique /\ Waiting

-----------------------------------------------------------------------------
(***************************************************************************)
(* Sending on a channel (Append) and receiving from it (Tail).            *)
(***************************************************************************)
LEMMA AppendRangeInj ==
    ASSUME NEW s \in Seq(Nat), NEW x \in Nat
    PROVE  /\ Range(Append(s, x)) = Range(s) \cup {x}
           /\ IsInjective(s) /\ x \notin Range(s) => IsInjective(Append(s, x))
<1>1. /\ Len(Append(s, x)) = Len(s) + 1
      /\ \A i \in 1..Len(s) : Append(s, x)[i] = s[i]
      /\ Append(s, x)[Len(s) + 1] = x
      /\ Append(s, x) \in Seq(Nat)
    BY AppendProperties
<1>2. Range(Append(s, x)) = Range(s) \cup {x}
    BY <1>1 DEF Range
<1>3. IsInjective(s) /\ x \notin Range(s) => IsInjective(Append(s, x))
    BY <1>1 DEF IsInjective, Range
<1>4. QED
    BY <1>2, <1>3

LEMMA TailRangeInj ==
    ASSUME NEW s \in Seq(Nat), s # <<>>
    PROVE  /\ Range(s) = Range(Tail(s)) \cup {Head(s)}
           /\ Tail(s) \in Seq(Nat) /\ Head(s) \in Nat
           /\ IsInjective(s) =>
                  /\ IsInjective(Tail(s))
                  /\ Head(s) \notin Range(Tail(s))
<1>1. /\ Head(s) \in Nat
      /\ Tail(s) \in Seq(Nat)
      /\ Len(Tail(s)) = Len(s) - 1
      /\ \A i \in 1..Len(Tail(s)) : Tail(s)[i] = s[i + 1]
    BY HeadTailProperties
<1>2. /\ Len(s) \in Nat /\ Len(s) # 0 /\ Head(s) = s[1]
      /\ DOMAIN s = 1..Len(s) /\ DOMAIN Tail(s) = 1..Len(s) - 1
    BY <1>1, EmptySeq, LenProperties
<1>3. Range(s) = Range(Tail(s)) \cup {Head(s)}
    <2>1. Range(Tail(s)) = {s[i] : i \in 2..Len(s)}
        <3>1. \A i \in 1..Len(s) - 1 : Tail(s)[i] = s[i + 1]
            BY <1>1, <1>2
        <3>2. ASSUME NEW y \in Range(Tail(s))
              PROVE  y \in {s[i] : i \in 2..Len(s)}
            <4>1. PICK i \in 1..Len(s) - 1 : y = Tail(s)[i]
                BY <1>2, <3>2 DEF Range
            <4>2. QED
                BY <1>2, <3>1, <4>1
        <3>3. ASSUME NEW i \in 2..Len(s)
              PROVE  s[i] \in Range(Tail(s))
            <4>1. i - 1 \in DOMAIN Tail(s) /\ Tail(s)[i - 1] = s[i]
                BY <1>2, <3>1
            <4>2. QED
                BY <4>1 DEF Range
        <3>4. QED
            BY <3>2, <3>3
    <2>2. Range(s) = {s[1]} \cup {s[i] : i \in 2..Len(s)}
        BY <1>2 DEF Range
    <2>3. QED
        BY <1>2, <2>1, <2>2
<1>4. IsInjective(s) => IsInjective(Tail(s)) /\ Head(s) \notin Range(Tail(s))
    <2>1. Range(Tail(s)) = {s[i] : i \in 2..Len(s)}
        <3>1. \A i \in 1..Len(s) - 1 : Tail(s)[i] = s[i + 1]
            BY <1>1, <1>2
        <3>2. ASSUME NEW y \in Range(Tail(s))
              PROVE  y \in {s[i] : i \in 2..Len(s)}
            <4>1. PICK i \in 1..Len(s) - 1 : y = Tail(s)[i]
                BY <1>2, <3>2 DEF Range
            <4>2. QED
                BY <1>2, <3>1, <4>1
        <3>3. ASSUME NEW i \in 2..Len(s)
              PROVE  s[i] \in Range(Tail(s))
            <4>1. i - 1 \in DOMAIN Tail(s) /\ Tail(s)[i - 1] = s[i]
                BY <1>2, <3>1
            <4>2. QED
                BY <4>1 DEF Range
        <3>4. QED
            BY <3>2, <3>3
    <2>2. HAVE IsInjective(s)
    <2>3. \A a, b \in 1..Len(s) : s[a] = s[b] => a = b
        BY <1>2, <2>2 DEF IsInjective
    <2>4. \A i \in 1..Len(s) - 1 : Tail(s)[i] = s[i + 1]
        BY <1>1, <1>2
    <2>5. IsInjective(Tail(s))
        BY <1>2, <2>3, <2>4 DEF IsInjective
    <2>6. Head(s) \notin Range(Tail(s))
        BY <1>2, <2>1, <2>3
    <2>7. QED
        BY <2>5, <2>6
<1>5. QED
    BY <1>1, <1>3, <1>4

-----------------------------------------------------------------------------
(***************************************************************************)
(* The invariant gives the property: a served response of a waiting        *)
(* caller is at one index of waitQueue and held by nobody, or held by one  *)
(* checking caller and in waitQueue nowhere.                               *)
(***************************************************************************)
LEMMA IInvResponseNotLost == IInv => ResponseNotLost
<1> SUFFICES ASSUME IInv, NEW c \in Clients, pc[c] \in {"wait", "check"},
                    reqID[c] \in responded
             PROVE  Copies(reqID[c]) = 1
    BY DEF ResponseNotLost
<1> DEFINE id == reqID[c]
           AtIndex == {i \in 1..Len(waitQueue) : waitQueue[i] = id}
           Holders == {d \in Clients : pc[d] = "check" /\ held[d] = id}
<1>1. waitQueue \in Seq(Nat) /\ DOMAIN waitQueue = 1..Len(waitQueue)
    BY DEF IInv, TypeOK
<1>2. id \in Range(waitQueue) \cup HeldIDs
    BY DEF IInv, Waiting
<1>0. Copies(id) = Cardinality(AtIndex) + Cardinality(Holders)
    BY DEF Copies
<1>3. CASE id \in Range(waitQueue)
    <2>1. PICK j \in 1..Len(waitQueue) : waitQueue[j] = id
        BY <1>1, <1>3 DEF Range
    <2>2. AtIndex = {j}
        BY <1>1, <2>1 DEF IInv, Unique, IsInjective
    <2>3. Holders = {}
        BY <1>3 DEF IInv, Unique, HeldIDs, Checking
    <2>4. Cardinality(AtIndex) = 1 /\ Cardinality(Holders) = 0
        BY <2>2, <2>3, FS_Singleton, FS_EmptySet
    <2>5. QED
        BY <1>0, <2>4
<1>4. CASE id \in HeldIDs
    <2>1. PICK d \in Checking : held[d] = id
        BY <1>4 DEF HeldIDs
    <2>2. Holders = {d}
        BY <2>1 DEF IInv, Unique, Checking
    <2>3. AtIndex = {}
        BY <1>1, <1>4 DEF IInv, Unique, Range
    <2>4. Cardinality(AtIndex) = 0 /\ Cardinality(Holders) = 1
        BY <2>2, <2>3, FS_Singleton, FS_EmptySet
    <2>5. QED
        BY <1>0, <2>4
<1>5. QED
    BY <1>2, <1>3, <1>4

-----------------------------------------------------------------------------
LEMMA InitIInv == Init => IInv
<1> SUFFICES ASSUME Init PROVE IInv
    OBVIOUS
<1>1. /\ reqSeq = 0 /\ queue = <<>> /\ waitQueue = <<>>
      /\ giveUp = {} /\ responded = {}
      /\ \A c \in Clients : pc[c] = "idle" /\ reqID[c] = NoID
    BY DEF Init
<1>2. Range(queue) = {} /\ Range(waitQueue) = {}
      /\ IsInjective(queue) /\ IsInjective(waitQueue)
    BY <1>1 DEF Range, IsInjective
<1>3. Requested = {} /\ Checking = {} /\ HeldIDs = {}
    BY <1>1 DEF Requested, Checking, HeldIDs
<1>4. TypeOK
    BY DEF Init, TypeOK, PCs, NoID
<1>5. QED
    BY <1>1, <1>2, <1>3, <1>4 DEF IInv, IDs, Places, Unique, Waiting

\* Request: a fresh ID, reqSeq + 1, is sent on queue.
LEMMA RequestIInv ==
    ASSUME IInv, NEW c \in Clients, Request(c)
    PROVE  IInv'
<1> DEFINE n == reqSeq + 1
<1>1. /\ pc[c] = "idle" /\ reqSeq \in Nat /\ queue \in Seq(Nat)
      /\ reqSeq' = n
      /\ reqID' = [reqID EXCEPT ![c] = n]
      /\ queue' = Append(queue, n)
      /\ pc' = [pc EXCEPT ![c] = "wait"]
      /\ UNCHANGED <<held, waitQueue, giveUp, responded>>
    BY DEF Request, IInv, TypeOK
<1>2. /\ n \notin Range(queue) /\ n \notin responded /\ n \notin giveUp
      /\ \A d \in Requested : reqID[d] # n
    BY <1>1 DEF IInv, Places, IDs
<1>3. /\ Range(queue') = Range(queue) \cup {n}
      /\ IsInjective(queue')
    BY <1>1, <1>2, AppendRangeInj DEF IInv, Unique
<1>4. Requested' = Requested \cup {c} /\ Checking' = Checking
      /\ HeldIDs' = HeldIDs
    BY <1>1 DEF Requested, Checking, HeldIDs, IInv, TypeOK
<1>5. TypeOK'
    BY <1>1, <1>3, AppendProperties DEF IInv, TypeOK, PCs
<1>6. IDs'
    BY <1>1, <1>2, <1>4 DEF IInv, IDs, TypeOK, NoID
<1>7. Places' /\ Unique'
    BY <1>1, <1>2, <1>3, <1>4 DEF IInv, Places, Unique
<1>8. Waiting'
    BY <1>1, <1>2, <1>4 DEF IInv, Waiting, TypeOK
<1>9. QED
    BY <1>5, <1>6, <1>7, <1>8 DEF IInv

\* The deadline fires while a caller waits.
LEMMA DeadlineIInv ==
    ASSUME IInv, NEW c \in Clients, Deadline(c)
    PROVE  IInv'
<1>1. /\ pc[c] = "wait" /\ pc' = [pc EXCEPT ![c] = "giveup"]
      /\ UNCHANGED <<reqSeq, reqID, held, queue, waitQueue, giveUp, responded>>
    BY DEF Deadline
<1>2. Requested' = Requested /\ Checking' = Checking /\ HeldIDs' = HeldIDs
    BY <1>1 DEF Requested, Checking, HeldIDs, IInv, TypeOK
<1>3. QED
    BY <1>1, <1>2 DEF IInv, TypeOK, PCs, IDs, Places, Unique, Waiting

\* The caller that gave up marks its ID in giveUp.
LEMMA GiveUpIInv ==
    ASSUME IInv, NEW c \in Clients, GiveUp(c)
    PROVE  IInv'
<1>1. /\ pc[c] = "giveup" /\ pc' = [pc EXCEPT ![c] = "timedout"]
      /\ giveUp' = giveUp \cup {reqID[c]}
      /\ UNCHANGED <<reqSeq, reqID, held, queue, waitQueue, responded>>
    BY DEF GiveUp
<1>2. /\ c \in Requested /\ reqID[c] \in 1..reqSeq
      /\ \A d \in Clients : pc[d] \in {"wait", "check"} => reqID[d] # reqID[c]
    BY <1>1 DEF IInv, IDs, Requested
<1>3. Requested' = Requested /\ Checking' = Checking /\ HeldIDs' = HeldIDs
    BY <1>1 DEF Requested, Checking, HeldIDs, IInv, TypeOK
<1>4. \A d \in Clients : pc'[d] = IF d = c THEN "timedout" ELSE pc[d]
    BY <1>1 DEF IInv, TypeOK
<1>5. TypeOK'
    BY <1>1, <1>2, <1>4 DEF IInv, TypeOK, PCs
<1>6. IDs'
    BY <1>1, <1>3, <1>4 DEF IInv, IDs, Requested
<1>7. Places' /\ Unique'
    BY <1>1, <1>2, <1>3 DEF IInv, Places, Unique
<1>8. Waiting'
    <2> SUFFICES ASSUME NEW d \in Clients, pc'[d] \in {"wait", "check"}
                 PROVE  /\ reqID'[d] \notin giveUp'
                        /\ reqID'[d] \in responded' =>
                               reqID'[d] \in Range(waitQueue') \cup HeldIDs'
        BY DEF Waiting
    <2>1. d # c /\ pc[d] \in {"wait", "check"}
        BY <1>4
    <2>2. QED
        BY <1>1, <1>2, <1>3, <2>1 DEF IInv, Waiting
<1>9. QED
    BY <1>5, <1>6, <1>7, <1>8 DEF IInv

\* The responder moves the head of queue to waitQueue (SendResponse).
LEMMA ServeIInv ==
    ASSUME IInv, Serve
    PROVE  IInv'
<1> DEFINE h == Head(queue)
<1>1. /\ queue # <<>> /\ queue \in Seq(Nat) /\ waitQueue \in Seq(Nat)
      /\ queue' = Tail(queue)
      /\ waitQueue' = Append(waitQueue, h)
      /\ responded' = responded \cup {h}
      /\ UNCHANGED <<reqSeq, pc, reqID, held, giveUp>>
    BY DEF Serve, IInv, TypeOK
<1>2. /\ Range(queue) = Range(queue') \cup {h}
      /\ queue' \in Seq(Nat) /\ h \in Nat
      /\ IsInjective(queue') /\ h \notin Range(queue')
    BY <1>1, TailRangeInj DEF IInv, Unique
<1>3. h \notin responded /\ h \in 1..reqSeq
    BY <1>2 DEF IInv, Places
<1>4. h \notin Range(waitQueue) /\ h \notin HeldIDs
    BY <1>3 DEF IInv, Places
<1>5. Range(waitQueue') = Range(waitQueue) \cup {h} /\ IsInjective(waitQueue')
    BY <1>1, <1>2, <1>4, AppendRangeInj DEF IInv, Unique
<1>6. Requested' = Requested /\ Checking' = Checking /\ HeldIDs' = HeldIDs
    BY <1>1 DEF Requested, Checking, HeldIDs
<1>7. TypeOK'
    BY <1>1, <1>2, AppendProperties DEF IInv, TypeOK
<1>8. IDs'
    BY <1>1, <1>6 DEF IInv, IDs
<1>9. Places'
    BY <1>1, <1>2, <1>3, <1>5, <1>6 DEF IInv, Places
<1>10. Unique'
    BY <1>1, <1>2, <1>4, <1>5, <1>6 DEF IInv, Unique
<1>11. Waiting'
    BY <1>1, <1>5, <1>6 DEF IInv, Waiting
<1>12. QED
    BY <1>7, <1>8, <1>9, <1>10, <1>11 DEF IInv

\* A waiting caller takes the head of waitQueue: its own response ends the
\* call, another one is held for the put-back check.
LEMMA ReceiveIInv ==
    ASSUME IInv, NEW c \in Clients, Receive(c)
    PROVE  IInv'
<1> DEFINE h == Head(waitQueue)
<1>1. /\ pc[c] = "wait" /\ waitQueue # <<>> /\ waitQueue \in Seq(Nat)
      /\ waitQueue' = Tail(waitQueue)
      /\ UNCHANGED <<reqSeq, reqID, queue, giveUp, responded>>
    BY DEF Receive, IInv, TypeOK
<1>2. /\ Range(waitQueue) = Range(waitQueue') \cup {h}
      /\ waitQueue' \in Seq(Nat) /\ h \in Nat
      /\ IsInjective(waitQueue') /\ h \notin Range(waitQueue')
    BY <1>1, TailRangeInj DEF IInv, Unique
<1>3. h \in responded /\ h \notin HeldIDs
    BY <1>1, <1>2 DEF IInv, Places, Unique
<1>4. c \in Requested /\ c \notin Checking
    BY <1>1 DEF Requested, Checking
<1>5. CASE h = reqID[c]
    <2>1. /\ pc' = [pc EXCEPT ![c] = "done"] /\ UNCHANGED held
        BY <1>1, <1>5 DEF Receive
    <2>2. \A d \in Clients : pc'[d] = IF d = c THEN "done" ELSE pc[d]
        BY <2>1 DEF IInv, TypeOK
    <2>3. Requested' = Requested /\ Checking' = Checking /\ HeldIDs' = HeldIDs
        BY <1>4, <2>1, <2>2 DEF Requested, Checking, HeldIDs
    <2>4. TypeOK' /\ IDs'
        BY <1>1, <1>2, <2>1, <2>2, <2>3 DEF IInv, TypeOK, PCs, IDs, Requested
    <2>5. Places'
        BY <1>1, <1>2, <2>3 DEF IInv, Places
    <2>6. Unique'
        BY <1>1, <1>2, <2>1, <2>3 DEF IInv, Unique
    <2>7. Waiting'
        <3> SUFFICES ASSUME NEW d \in Clients, pc'[d] \in {"wait", "check"}
                     PROVE  /\ reqID'[d] \notin giveUp'
                            /\ reqID'[d] \in responded' =>
                                 reqID'[d] \in Range(waitQueue') \cup HeldIDs'
            BY DEF Waiting
        <3>1. d # c /\ pc[d] \in {"wait", "check"} /\ d \in Requested
            BY <2>2 DEF Requested
        <3>2. reqID[d] # h
            BY <1>4, <1>5, <3>1 DEF IInv, IDs
        <3>3. QED
            BY <1>1, <1>2, <2>3, <3>1, <3>2 DEF IInv, Waiting
    <2>8. QED
        BY <2>4, <2>5, <2>6, <2>7 DEF IInv
<1>6. CASE h # reqID[c]
    <2>1. /\ pc' = [pc EXCEPT ![c] = "check"]
          /\ held' = [held EXCEPT ![c] = h]
        BY <1>1, <1>6 DEF Receive
    <2>2. /\ \A d \in Clients : pc'[d] = IF d = c THEN "check" ELSE pc[d]
          /\ \A d \in Clients : held'[d] = IF d = c THEN h ELSE held[d]
        BY <2>1 DEF IInv, TypeOK
    <2>3. /\ Requested' = Requested
          /\ Checking' = Checking \cup {c}
          /\ HeldIDs' = HeldIDs \cup {h}
        BY <1>4, <2>2 DEF Requested, Checking, HeldIDs
    <2>4. TypeOK'
        BY <1>1, <1>2, <2>1 DEF IInv, TypeOK, PCs
    <2>5. IDs'
        BY <1>1, <2>2, <2>3 DEF IInv, IDs
    <2>6. Places'
        BY <1>1, <1>2, <1>3, <2>3 DEF IInv, Places
    <2>7. Unique'
        <3>1. HeldIDs' \cap Range(waitQueue') = {}
            BY <1>2, <2>3 DEF IInv, Unique
        <3>2. ASSUME NEW d \in Checking', NEW e \in Checking',
                     held'[d] = held'[e]
              PROVE  d = e
            <4>1. d \in Clients /\ e \in Clients
                BY DEF Checking
            <4>2. \A x \in Checking : held[x] \in HeldIDs /\ x # c
                BY <1>4 DEF HeldIDs
            <4>3. CASE d = c /\ e = c
                BY <4>3
            <4>4. CASE d = c /\ e # c
                BY <1>3, <2>2, <2>3, <3>2, <4>1, <4>2, <4>4
            <4>5. CASE d # c /\ e = c
                BY <1>3, <2>2, <2>3, <3>2, <4>1, <4>2, <4>5
            <4>6. CASE d # c /\ e # c
                BY <2>2, <2>3, <3>2, <4>1, <4>6 DEF IInv, Unique
            <4>7. QED
                BY <4>3, <4>4, <4>5, <4>6
        <3>3. QED
            BY <1>1, <1>2, <3>1, <3>2 DEF IInv, Unique
    <2>8. Waiting'
        <3> SUFFICES ASSUME NEW d \in Clients, pc'[d] \in {"wait", "check"}
                     PROVE  /\ reqID'[d] \notin giveUp'
                            /\ reqID'[d] \in responded' =>
                                 reqID'[d] \in Range(waitQueue') \cup HeldIDs'
            BY DEF Waiting
        <3>1. pc[d] \in {"wait", "check"}
            BY <1>1, <2>2
        <3>2. QED
            BY <1>1, <1>2, <2>3, <3>1 DEF IInv, Waiting
    <2>9. QED
        BY <2>4, <2>5, <2>6, <2>7, <2>8 DEF IInv
<1>7. QED
    BY <1>5, <1>6

\* A checking caller puts the response back on waitQueue, or drops it if
\* its caller gave up and deletes the mark (lines 162-168).
LEMMA RecheckIInv ==
    ASSUME IInv, NEW c \in Clients, Recheck(c)
    PROVE  IInv'
<1> DEFINE x == held[c]
<1>1. /\ pc[c] = "check" /\ waitQueue \in Seq(Nat)
      /\ held' = [held EXCEPT ![c] = NoID]
      /\ pc' = [pc EXCEPT ![c] = "wait"]
      /\ UNCHANGED <<reqSeq, reqID, queue, responded>>
    BY DEF Recheck, IInv, TypeOK
<1>2. /\ \A d \in Clients : pc'[d] = IF d = c THEN "wait" ELSE pc[d]
      /\ \A d \in Clients : held'[d] = IF d = c THEN NoID ELSE held[d]
    BY <1>1 DEF IInv, TypeOK
<1>3. /\ c \in Checking /\ x \in HeldIDs /\ x \in Nat
      /\ x \in responded /\ x \notin Range(waitQueue)
    BY <1>1 DEF Checking, HeldIDs, IInv, Places, Unique, TypeOK
<1>4. /\ Requested' = Requested
      /\ Checking' = Checking \ {c}
      /\ HeldIDs' = HeldIDs \ {x}
    <2>1. Requested' = Requested /\ Checking' = Checking \ {c}
        BY <1>1, <1>2 DEF Requested, Checking
    <2>2. \A d \in Checking \ {c} : held[d] # x
        BY <1>3 DEF IInv, Unique
    <2>3. QED
        BY <1>2, <2>1, <2>2 DEF HeldIDs, Checking
<1>5. \A d \in Clients : pc[d] \in {"wait", "check"} => reqID[d] # x \/ x \notin giveUp
    BY DEF IInv, Waiting
<1>6. CASE x \notin giveUp
    <2>1. waitQueue' = Append(waitQueue, x) /\ UNCHANGED giveUp
        BY <1>6 DEF Recheck
    <2>2. Range(waitQueue') = Range(waitQueue) \cup {x}
          /\ IsInjective(waitQueue')
        BY <1>1, <1>3, <2>1, AppendRangeInj DEF IInv, Unique
    <2>3. TypeOK'
        BY <1>1, <1>3, <2>1, AppendProperties DEF IInv, TypeOK, PCs, NoID
    <2>4. IDs'
        BY <1>1, <1>2, <1>4 DEF IInv, IDs
    <2>5. Places'
        BY <1>1, <1>3, <1>4, <2>1, <2>2 DEF IInv, Places
    <2>6. Unique'
        BY <1>1, <1>2, <1>3, <1>4, <2>2 DEF IInv, Unique
    <2>7. Waiting'
        <3> SUFFICES ASSUME NEW d \in Clients, pc'[d] \in {"wait", "check"}
                     PROVE  /\ reqID'[d] \notin giveUp'
                            /\ reqID'[d] \in responded' =>
                                 reqID'[d] \in Range(waitQueue') \cup HeldIDs'
            BY DEF Waiting
        <3>1. pc[d] \in {"wait", "check"}
            BY <1>1, <1>2
        <3>2. QED
            BY <1>1, <1>4, <2>1, <2>2, <3>1 DEF IInv, Waiting
    <2>8. QED
        BY <2>3, <2>4, <2>5, <2>6, <2>7 DEF IInv
<1>7. CASE x \in giveUp
    <2>1. giveUp' = giveUp \ {x} /\ UNCHANGED waitQueue
        BY <1>7 DEF Recheck
    <2>2. TypeOK'
        BY <1>1, <2>1 DEF IInv, TypeOK, PCs, NoID
    <2>3. IDs'
        BY <1>1, <1>2, <1>4 DEF IInv, IDs
    <2>4. Places'
        BY <1>1, <1>4, <2>1 DEF IInv, Places
    <2>5. Unique'
        BY <1>1, <1>2, <1>4, <2>1 DEF IInv, Unique
    <2>6. Waiting'
        <3> SUFFICES ASSUME NEW d \in Clients, pc'[d] \in {"wait", "check"}
                     PROVE  /\ reqID'[d] \notin giveUp'
                            /\ reqID'[d] \in responded' =>
                                 reqID'[d] \in Range(waitQueue') \cup HeldIDs'
            BY DEF Waiting
        <3>1. pc[d] \in {"wait", "check"} /\ reqID[d] # x
            BY <1>1, <1>2, <1>5, <1>7
        <3>2. QED
            BY <1>1, <1>4, <2>1, <3>1 DEF IInv, Waiting
    <2>7. QED
        BY <2>2, <2>3, <2>4, <2>5, <2>6 DEF IInv
<1>8. QED
    BY <1>6, <1>7

-----------------------------------------------------------------------------
LEMMA StepIInv == IInv /\ [Next]_vars => IInv'
<1> SUFFICES ASSUME IInv, [Next]_vars PROVE IInv'
    OBVIOUS
<1>1. CASE \E c \in Clients :
              Request(c) \/ Deadline(c) \/ GiveUp(c) \/ Receive(c) \/ Recheck(c)
    BY <1>1, RequestIInv, DeadlineIInv, GiveUpIInv, ReceiveIInv, RecheckIInv
<1>2. CASE Serve
    BY <1>2, ServeIInv
<1>3. CASE UNCHANGED vars
    <2>1. /\ Requested' = Requested /\ Checking' = Checking
          /\ HeldIDs' = HeldIDs
        BY <1>3 DEF vars, Requested, Checking, HeldIDs
    <2>2. QED
        BY <1>3, <2>1 DEF vars, IInv, TypeOK, IDs, Places, Unique, Waiting
<1>4. QED
    BY <1>1, <1>2, <1>3 DEF Next

(***************************************************************************)
(* A response is never lost or duplicated while its caller waits, for      *)
(* every number of callers, whichever of them have deadlines: the put-back *)
(* loop of every other caller (lines 161-168) returns it to waitQueue, and *)
(* it is dropped only when its own caller has given up.  The run           *)
(* transport_pass checks it on three callers.                              *)
(***************************************************************************)
THEOREM ResponseNotLostHolds == Spec => []ResponseNotLost
<1>1. Init => IInv
    BY InitIInv
<1>2. IInv /\ [Next]_vars => IInv'
    BY StepIInv
<1>3. IInv => ResponseNotLost
    BY IInvResponseNotLost
<1>4. QED
    BY <1>1, <1>2, <1>3, PTL DEF Spec
=============================================================================
