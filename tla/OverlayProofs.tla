--------------------------- MODULE OverlayProofs ---------------------------
(***************************************************************************)
(* Proofs about OverlayStream, for any number of streams, deliveries,      *)
(* connections that die, messages and subscriptions that fail and alerts   *)
(* hidden: a stream sees a row once and in order, what was hidden is taken *)
(* back, a delivery has one outcome, a token keeps to its places, no row   *)
(* is passed, and a quiet stream wrote all of them but those that wait for *)
(* the next notification.                                                  *)
(***************************************************************************)
EXTENDS OverlayStream, FiniteSetTheorems, SequenceTheorems, WellFoundedInduction, TLAPS

\* x is somewhere in the list q.
In(x, q) == \E n \in 1..Len(q) : q[n] = x

\* The message m is on its way to stream s.
Coming(s, m) == mail[s][m] > 0

-----------------------------------------------------------------------------
(* The inductive invariant *)

\* Rows are numbered one after the other and the open one is the last; nothing is hidden
\* before somebody hid it; an outcome is what was published of it.
RowsOK ==
    \A r \in Rows :
        /\ row[r].status = "none" <=> next <= r
        /\ row[r].status = "open" => r = next - 1
        /\ row[r].hidden => hides[r] > 0
        /\ events[r] = IF row[r].status \in {"delivered", "failed"} THEN {row[r].status} ELSE {}

\* A push that did not begin.
PushWaits(st) ==
    \E n \in 1..Len(st.chain) : st.chain[n] = <<"push">> /\ (n > 1 \/ st.at = "idle")

\* A stream starts first, is in the task at the head, and has a push waiting when it says so.
ChainOK(st) ==
    /\ \A n \in 1..Len(st.chain) : st.chain[n] = <<"start">> => n = 1
    /\ st.at # "idle" => st.chain # <<>> /\ Head(st.chain) \in {<<"start">>, <<"push">>}
    /\ st.at = "fetch" => Head(st.chain) = <<"start">>
    /\ st.queued => PushWaits(st)

\* What is written was read up to last, and what is about to be written is newer.
OrderOK(st) ==
    /\ st.at \in {"idle", "fetch"} => st.batch = {}
    /\ In(<<"start">>, st.chain) => st.wrote = {}
    /\ In(<<"start">>, st.chain) /\ st.at \in {"idle", "fetch"} => st.since = MaxRows + 1
    /\ \A q \in st.wrote : q <= st.last
    /\ \A r \in st.batch : r <= st.last /\ \A q \in st.wrote : q < r
    /\ st.sub = "asked" => st.at = "idle" /\ In(<<"start">>, st.chain)

\* A stream read only what is committed.
SeenOK(s) ==
    /\ stream[s].top \in Committed \cup {0} /\ stream[s].top <= stream[s].since
    /\ \A r \in Rows \ Committed : stream[s].last < r

\* A row that is to be shown.
Live(r) == r \in Committed /\ row[r].status # "failed" /\ ~row[r].old /\ hides[r] = 0

\* What was committed since the stream read is written, about to be, or ahead; and it will be
\* read, now or after the next notification.
SkipOK(s) ==
    \A r \in Wants[s] : Live(r) /\ stream[s].since < r =>
        \/ r \in stream[s].wrote \cup stream[s].batch
        \/ /\ stream[s].last < r
           /\ r \in missed[s].late \/ PushWaits(stream[s]) \/ Coming(s, <<"new">>)

\* What is hidden and shown, or about to be, is taken back by something on its way, unless its
\* retraction was lost.
TakenOK(s) ==
    \A r \in stream[s].wrote \cup stream[s].batch :
        row[r].hidden /\ r \in page[s].shown \cup (stream[s].batch \ page[s].retracted) =>
            \/ Coming(s, <<"retract", r>>) \/ Coming(s, <<"revoke">>)
            \/ In(<<"retract", r>>, stream[s].chain)
            \/ r \in missed[s].unaware

OpenOK(s) == ChainOK(stream[s]) /\ OrderOK(stream[s]) /\ SeenOK(s) /\ SkipOK(s) /\ TakenOK(s)

ClosedOK(s) == stream[s].chain = <<>> /\ stream[s].at = "idle" /\ mail[s] = NoMail

StreamOK(s) == IF stream[s].pc = "open" THEN OpenOK(s) ELSE ClosedOK(s)

IInv ==
    /\ TypeOK
    /\ RowsOK
    /\ \A s \in Streams : StreamOK(s)
    /\ Places <= MaxStreams

-----------------------------------------------------------------------------
(* Sets of rows *)

\* A nonempty finite set of numbers has a largest and a smallest one.
LEMMA Extremes ==
    ASSUME NEW S \in SUBSET Nat, IsFiniteSet(S), S # {}
    PROVE  /\ \E x \in S : \A y \in S : y <= x
           /\ \E x \in S : \A y \in S : x <= y
<1> DEFINE Above(x) == {y \in S : x < y}
           Below(x) == {y \in S : y < x}
<1>1. IsWellFoundedOn(StrictSubsetOrdering(S), SUBSET S)
  BY FS_StrictSubsetOrderingWellFounded, FS_FiniteSubsetsOfFinite
<1>2. \E x \in S : \A y \in S : y <= x
  <2> DEFINE T == {Above(x) : x \in S}
  <2>1. PICK U \in T : \A V \in T : ~ (<<V, U>> \in StrictSubsetOrdering(S))
    <3>1. T \subseteq SUBSET S /\ T # {}
      OBVIOUS
    <3> HIDE DEF T
    <3>2. QED
      BY <1>1, <3>1, WFMin
  <2>2. PICK x \in S : U = Above(x)
    BY <2>1
  <2>3. ASSUME NEW y \in S, x < y PROVE FALSE
    <3>1. Above(y) \in T /\ Above(y) \subseteq S /\ U \subseteq S
      BY <2>2
    <3>2. Above(y) \subseteq U /\ y \in U /\ y \notin Above(y)
      <4>1. y \in U /\ y \notin Above(y)
        BY <2>2, <2>3
      <4>2. ASSUME NEW z \in Above(y) PROVE z \in U
        <5>1. z \in S /\ x \in Nat /\ y \in Nat /\ z \in Nat
          OBVIOUS
        <5>2. x < z
          BY <2>3, <4>2, <5>1
        <5>3. QED
          BY <2>2, <5>1, <5>2
      <4>3. QED
        BY <4>1, <4>2
    <3> HIDE DEF Above, T
    <3>3. <<Above(y), U>> \in StrictSubsetOrdering(S)
      BY <3>1, <3>2 DEF StrictSubsetOrdering
    <3>4. QED
      BY <2>1, <3>1, <3>3
  <2>4. QED
    BY <2>2, <2>3
<1>3. \E x \in S : \A y \in S : x <= y
  <2> DEFINE T == {Below(x) : x \in S}
  <2>1. PICK U \in T : \A V \in T : ~ (<<V, U>> \in StrictSubsetOrdering(S))
    <3>1. T \subseteq SUBSET S /\ T # {}
      OBVIOUS
    <3> HIDE DEF T
    <3>2. QED
      BY <1>1, <3>1, WFMin
  <2>2. PICK x \in S : U = Below(x)
    BY <2>1
  <2>3. ASSUME NEW y \in S, y < x PROVE FALSE
    <3>1. Below(y) \in T /\ Below(y) \subseteq S /\ U \subseteq S
      BY <2>2
    <3>2. Below(y) \subseteq U /\ y \in U /\ y \notin Below(y)
      <4>1. y \in U /\ y \notin Below(y)
        BY <2>2, <2>3
      <4>2. ASSUME NEW z \in Below(y) PROVE z \in U
        <5>1. z \in S /\ x \in Nat /\ y \in Nat /\ z \in Nat
          OBVIOUS
        <5>2. z < x
          BY <2>3, <4>2, <5>1
        <5>3. QED
          BY <2>2, <5>1, <5>2
      <4>3. QED
        BY <4>1, <4>2
    <3> HIDE DEF Below, T
    <3>3. <<Below(y), U>> \in StrictSubsetOrdering(S)
      BY <3>1, <3>2 DEF StrictSubsetOrdering
    <3>4. QED
      BY <2>1, <3>1, <3>3
  <2>4. QED
    BY <2>2, <2>3
<1>4. QED
  BY <1>2, <1>3

\* What Max and Min return of some rows, and of some rows and a number.
LEMMA RowExtremes ==
    ASSUME NEW R \in SUBSET Rows
    PROVE  /\ \A n \in Nat : /\ Max(R \cup {n}) \in R \cup {n}
                             /\ \A x \in R \cup {n} : x <= Max(R \cup {n})
           /\ R # {} => Min(R) \in R /\ \A x \in R : Min(R) <= x
<1>1. R \subseteq Nat /\ IsFiniteSet(R)
  <2>1. Rows \subseteq Nat /\ IsFiniteSet(Rows)
    BY OverlayConstantsOK, FS_Interval DEF Rows
  <2>2. QED
    BY <2>1, FS_Subset
<1>2. ASSUME NEW n \in Nat
      PROVE  /\ Max(R \cup {n}) \in R \cup {n}
             /\ \A x \in R \cup {n} : x <= Max(R \cup {n})
  <2> DEFINE S == R \cup {n}
  <2>1. S \in SUBSET Nat /\ IsFiniteSet(S) /\ S # {}
    BY <1>1, FS_AddElement
  <2> HIDE DEF S
  <2>2. PICK x \in S : \A y \in S : x >= y
    BY <2>1, Extremes
  <2>3. Max(S) \in S /\ \A y \in S : Max(S) >= y
    BY <2>2 DEF Max
  <2>4. QED
    BY <2>1, <2>3 DEF S
<1>3. ASSUME R # {}
      PROVE  Min(R) \in R /\ \A x \in R : Min(R) <= x
  <2>1. PICK x \in R : \A y \in R : x <= y
    BY <1>1, <1>3, Extremes
  <2>2. QED
    BY <2>1 DEF Min
<1>4. QED
  BY <1>2, <1>3

\* The rows read, and those of them a limit lets through, are rows.
LEMMA RowSets ==
    ASSUME TypeOK
    PROVE  /\ Sendable \subseteq Committed /\ Committed \subseteq Rows
           /\ Newest \in Committed \cup {0} /\ Newest <= MaxRows
           /\ \A r \in Committed : r <= Newest
           /\ \A n, S : S \subseteq Rows => NewestOf(n, S) \subseteq S /\ OldestOf(n, S) \subseteq S
<1>1. Committed \subseteq Rows /\ Sendable \subseteq Committed
  BY DEF Committed, Sendable
<1>2. /\ Newest \in Committed \cup {0}
      /\ \A r \in Committed : r <= Newest
  BY <1>1, RowExtremes DEF Newest
<1>3. Newest <= MaxRows
  BY <1>1, <1>2, OverlayConstantsOK DEF Rows
<1>4. QED
  BY <1>1, <1>2, <1>3 DEF NewestOf, OldestOf

-----------------------------------------------------------------------------
(* Lists of tasks and messages *)

\* What the tags of tasks and messages tell apart.
LEMMA Tags ==
    /\ <<"start">> # <<"push">> /\ <<"new">> # <<"revoke">>
    /\ \A r : /\ <<"retract", r>> # <<"start">> /\ <<"retract", r>> # <<"push">>
              /\ <<"retract", r>> # <<"new">> /\ <<"retract", r>> # <<"revoke">>
    /\ \A r, q : <<"retract", r>> = <<"retract", q>> => r = q
    /\ \A r : <<"retract", r>>[1] = "retract" /\ <<"retract", r>>[2] = r
    /\ <<"start">>[1] # "retract" /\ <<"push">>[1] # "retract"
  OBVIOUS

\* A longer list holds what it held, and what was added.
LEMMA InAppend ==
    ASSUME NEW S, NEW q \in Seq(S), NEW e \in S, NEW x
    PROVE  In(x, Append(q, e)) <=> In(x, q) \/ x = e
<1> DEFINE a == Append(q, e)
<1>1. /\ Len(a) = Len(q) + 1 /\ Len(q) \in Nat
      /\ \A n \in 1..Len(q) : a[n] = q[n]
      /\ a[Len(q) + 1] = e
  BY AppendProperties, LenProperties
<1> HIDE DEF a
<1>2. \A n \in 1..Len(a) : n \in 1..Len(q) \/ n = Len(q) + 1
  BY <1>1
<1>3. In(x, a) => In(x, q) \/ x = e
  BY <1>1, <1>2 DEF In
<1>4. In(x, q) => In(x, a)
  BY <1>1 DEF In
<1>5. x = e => In(x, a)
  BY <1>1 DEF In
<1>6. QED
  BY <1>3, <1>4, <1>5 DEF a

\* The tail of a list holds what the list holds after its head.
LEMMA InTail ==
    ASSUME NEW S, NEW q \in Seq(S), q # <<>>, NEW x
    PROVE  /\ In(x, Tail(q)) => In(x, q)
           /\ In(x, q) /\ x # Head(q) => In(x, Tail(q))
           /\ Head(q) = q[1] /\ Len(q) \in Nat \ {0}
           /\ Len(Tail(q)) = Len(q) - 1
           /\ \A n \in 1..Len(q) - 1 : Tail(q)[n] = q[n + 1]
<1> DEFINE u == Tail(q)
<1>1. /\ Head(q) = q[1] /\ Len(q) \in Nat \ {0} /\ Len(u) = Len(q) - 1
      /\ \A n \in 1..Len(u) : u[n] = q[n + 1]
  BY HeadTailProperties, LenProperties, EmptySeq
<1> HIDE DEF u
<1>2. In(x, u) => In(x, q)
  <2> SUFFICES ASSUME NEW n \in 1..Len(u), u[n] = x PROVE In(x, q)
    BY DEF In
  <2>1. n + 1 \in 1..Len(q) /\ q[n + 1] = x
    BY <1>1
  <2>2. QED
    BY <2>1 DEF In
<1>3. ASSUME In(x, q), x # Head(q) PROVE In(x, u)
  <2>1. PICK n \in 1..Len(q) : q[n] = x
    BY <1>3 DEF In
  <2>2. n # 1
    BY <1>1, <1>3, <2>1
  <2>3. n - 1 \in 1..Len(u) /\ u[n - 1] = x
    BY <1>1, <2>1, <2>2
  <2>4. QED
    BY <2>3 DEF In
<1>4. QED
  BY <1>1, <1>2, <1>3 DEF u

-----------------------------------------------------------------------------
(* Types *)

MailTypes == mail' \in [Streams -> [Messages -> Nat]] /\ missed' \in [Streams -> Misses]

\* What is published is on its way to the streams it reaches, and to no other.
LEMMA PublishTypes ==
    ASSUME TypeOK, NEW m \in Messages, NEW to \in SUBSET Open, Publish(m, to)
    PROVE  /\ mail' \in [Streams -> [Messages -> Nat]] /\ failures' \in Nat
           /\ \A s \in to : mail'[s][m] > 0
           /\ \A s \in Streams \ to : mail'[s] = mail[s]
           /\ \A s \in Streams, x \in Messages : mail[s][x] > 0 => mail'[s][x] > 0
<1> DEFINE more(s) == [mail[s] EXCEPT ![m] = mail[s][m] + 1]
<1>1. /\ mail' = [s \in Streams |-> IF s \in to THEN more(s) ELSE mail[s]]
      /\ mail \in [Streams -> [Messages -> Nat]] /\ failures \in Nat /\ to \subseteq Streams
  BY DEF Publish, TypeOK, Open
<1>2. failures' \in Nat
  BY <1>1 DEF Publish
<1>3. ASSUME NEW s \in Streams
      PROVE  /\ more(s) \in [Messages -> Nat] /\ more(s)[m] > 0
             /\ \A x \in Messages : mail[s][x] > 0 => more(s)[x] > 0
  <2>1. mail[s] \in [Messages -> Nat]
    BY <1>1
  <2>2. QED
    BY <2>1
<1> HIDE DEF more
<1>4. QED
  BY <1>1, <1>2, <1>3

\* A stream that is gone.
LEMMA NoStreamTypes ==
    /\ NoStream \in StreamStates /\ NoMail \in [Messages -> Nat] /\ NothingLost \in Misses
<1>1. MaxRows + 1 \in Nat
  BY OverlayConstantsOK
<1>2. <<>> \in Seq(Tasks)
  OBVIOUS
<1>3. QED
  BY <1>1, <1>2 DEF NoStream, StreamStates, NoMail, NothingLost, Misses

\* Only stream s, what it has to hear and its page change.
Only(s) ==
    \A t \in Streams \ {s} :
        /\ stream'[t] = stream[t] /\ mail'[t] = mail[t] /\ missed'[t] = missed[t]
        /\ page'[t] = page[t]

\* Places, connections and drops.
LEMMA ConnectFacts ==
    ASSUME TypeOK, NEW s \in Streams
    PROVE  /\ Reserve(s) => /\ stream'[s] = [stream[s] EXCEPT !.pc = "reserved"]
                            /\ stream' \in [Streams -> StreamStates] /\ Only(s)
           /\ Attach(s) =>
                /\ stream'[s] = [NoStream EXCEPT !.pc = "open", !.queued = TRUE,
                                                !.chain = <<<<"start">>, <<"push">>>>]
                /\ mail'[s] = NoMail /\ Only(s)
                /\ stream' \in [Streams -> StreamStates] /\ MailTypes
           /\ Detached(s) =>
                /\ stream'[s] = NoStream /\ mail'[s] = NoMail
                /\ \A t \in Streams \ {s} : /\ stream'[t] = stream[t] /\ mail'[t] = mail[t]
                                             /\ missed'[t] = missed[t]
                /\ stream' \in [Streams -> StreamStates] /\ MailTypes
<1>1. stream[s] \in StreamStates
  BY DEF TypeOK
<1>2. ASSUME Reserve(s)
      PROVE  /\ stream'[s] = [stream[s] EXCEPT !.pc = "reserved"]
             /\ stream' \in [Streams -> StreamStates] /\ Only(s)
  <2>1. [stream[s] EXCEPT !.pc = "reserved"] \in StreamStates
    BY <1>1 DEF StreamStates
  <2>2. QED
    BY <1>2, <2>1 DEF Reserve, Only, TypeOK
<1>3. ASSUME Attach(s)
      PROVE  /\ stream'[s] = [NoStream EXCEPT !.pc = "open", !.queued = TRUE,
                                             !.chain = <<<<"start">>, <<"push">>>>]
             /\ mail'[s] = NoMail /\ Only(s)
             /\ stream' \in [Streams -> StreamStates] /\ MailTypes
  <2> DEFINE c == <<<<"start">>, <<"push">>>>
             st == [NoStream EXCEPT !.pc = "open", !.queued = TRUE, !.chain = c]
  <2>1. c \in Seq(Tasks)
    <3>1. <<"start">> \in Tasks /\ <<"push">> \in Tasks
      BY DEF Tasks
    <3>2. QED
      BY <3>1
  <2> HIDE DEF c
  <2>2. st \in StreamStates
    BY <2>1, NoStreamTypes DEF StreamStates
  <2>3. /\ stream' = [stream EXCEPT ![s] = st] /\ mail' = [mail EXCEPT ![s] = NoMail]
        /\ missed' = [missed EXCEPT ![s] = NothingLost] /\ page' = page
    BY <1>3 DEF Attach, c
  <2> HIDE DEF st
  <2>4. /\ stream'[s] = st /\ mail'[s] = NoMail /\ Only(s)
        /\ stream' \in [Streams -> StreamStates] /\ MailTypes
    BY <1>1, <2>2, <2>3, NoStreamTypes DEF Only, TypeOK, MailTypes
  <2>5. QED
    BY <2>4 DEF st, c
<1>4. ASSUME Detached(s)
      PROVE  /\ stream'[s] = NoStream /\ mail'[s] = NoMail
             /\ \A t \in Streams \ {s} : /\ stream'[t] = stream[t] /\ mail'[t] = mail[t]
                                          /\ missed'[t] = missed[t]
             /\ stream' \in [Streams -> StreamStates] /\ MailTypes
  BY <1>1, <1>4, NoStreamTypes DEF Detached, TypeOK, MailTypes
<1>5. QED
  BY <1>2, <1>3, <1>4

\* The subscription comes into place, or fails.
SubStep(s) ==
    \E sub \in {"failed", "heard"} :
        /\ stream[s].pc = "open" /\ stream[s].sub # "heard"
        /\ stream' = [stream EXCEPT ![s].sub = sub]
        /\ UNCHANGED <<db, mail, missed, page, slots, revoked, drops, hides>>
        /\ failures' \in Nat

\* Hearing and subscribing.
LEMMA HearFacts ==
    ASSUME TypeOK, NEW s \in Streams
    PROVE  /\ Subscribed(s) \/ SubscribeFails(s) => SubStep(s)
           /\ SubStep(s) =>
                /\ \E sub \in {"failed", "heard"} : stream'[s] = [stream[s] EXCEPT !.sub = sub]
                /\ stream' \in [Streams -> StreamStates] /\ Only(s)
           /\ Hear(s) =>
                /\ stream' \in [Streams -> StreamStates] /\ MailTypes /\ Only(s)
                /\ \/ stream'[s] = NoStream /\ mail'[s] = NoMail
                   \/ /\ missed'[s] = missed[s]
                      /\ \A x \in Messages \ {<<"new">>} : mail'[s][x] = mail[s][x]
                      /\ \/ stream[s].queued /\ stream'[s] = stream[s]
                         \/ stream'[s] = [stream[s] EXCEPT !.queued = TRUE,
                                              !.chain = Append(stream[s].chain, <<"push">>)]
                   \/ \E r \in Rows :
                        /\ missed'[s] = missed[s]
                        /\ \A x \in Messages \ {<<"retract", r>>} : mail'[s][x] = mail[s][x]
                        /\ stream'[s] = [stream[s] EXCEPT !.chain =
                                            Append(stream[s].chain, <<"retract", r>>)]
<1>1. stream[s] \in StreamStates /\ mail[s] \in [Messages -> Nat] /\ failures \in Nat
  BY DEF TypeOK
<1>2. Subscribed(s) => SubStep(s)
  BY <1>1 DEF Subscribed, SubStep
<1>3. SubscribeFails(s) => SubStep(s)
  BY <1>1 DEF SubscribeFails, SubStep
<1>4. ASSUME SubStep(s)
      PROVE  /\ \E sub \in {"failed", "heard"} : stream'[s] = [stream[s] EXCEPT !.sub = sub]
             /\ stream' \in [Streams -> StreamStates] /\ Only(s)
  <2>1. PICK sub \in {"failed", "heard"} :
           /\ stream' = [stream EXCEPT ![s].sub = sub]
           /\ mail' = mail /\ missed' = missed /\ page' = page
    BY <1>4 DEF SubStep
  <2>2. [stream[s] EXCEPT !.sub = sub] \in StreamStates
    BY <1>1 DEF StreamStates
  <2>3. QED
    BY <2>1, <2>2 DEF Only, TypeOK
<1>5. ASSUME Hear(s)
      PROVE  /\ stream' \in [Streams -> StreamStates] /\ MailTypes /\ Only(s)
             /\ \/ stream'[s] = NoStream /\ mail'[s] = NoMail
                \/ /\ missed'[s] = missed[s]
                   /\ \A x \in Messages \ {<<"new">>} : mail'[s][x] = mail[s][x]
                   /\ \/ stream[s].queued /\ stream'[s] = stream[s]
                      \/ stream'[s] = [stream[s] EXCEPT !.queued = TRUE,
                                           !.chain = Append(stream[s].chain, <<"push">>)]
                \/ \E r \in Rows :
                     /\ missed'[s] = missed[s]
                     /\ \A x \in Messages \ {<<"retract", r>>} : mail'[s][x] = mail[s][x]
                     /\ stream'[s] = [stream[s] EXCEPT !.chain =
                                         Append(stream[s].chain, <<"retract", r>>)]
  <2> DEFINE pushed == [stream[s] EXCEPT !.queued = TRUE,
                                         !.chain = Append(stream[s].chain, <<"push">>)]
             later(m) == [stream[s] EXCEPT !.chain = Append(stream[s].chain, m)]
             fewer(m) == [mail[s] EXCEPT ![m] = mail[s][m] - 1]
  <2>1. PICK m \in Messages :
           /\ mail[s][m] > 0
           /\ IF m = <<"revoke">> THEN Detached(s)
              ELSE /\ mail' = [mail EXCEPT ![s] = fewer(m)]
                   /\ stream' = IF m = <<"new">>
                                THEN IF stream[s].queued THEN stream
                                     ELSE [stream EXCEPT ![s] = pushed]
                                ELSE [stream EXCEPT ![s] = later(m)]
                   /\ missed' = missed
           /\ page' = page
    BY <1>5 DEF Hear
  <2>2. pushed \in StreamStates
    <3>1. Append(stream[s].chain, <<"push">>) \in Seq(Tasks)
      BY <1>1, AppendProperties DEF StreamStates, Tasks
    <3>2. QED
      BY <1>1, <3>1 DEF StreamStates
  <2>3. m \notin {<<"new">>, <<"revoke">>} => /\ \E r \in Rows : m = <<"retract", r>>
                                               /\ later(m) \in StreamStates
    <3> SUFFICES ASSUME m \notin {<<"new">>, <<"revoke">>}
                 PROVE  (\E r \in Rows : m = <<"retract", r>>) /\ later(m) \in StreamStates
      OBVIOUS
    <3>1. \E r \in Rows : m = <<"retract", r>>
      BY <2>1 DEF Messages
    <3>2. m \in Tasks
      BY <3>1 DEF Tasks
    <3>3. Append(stream[s].chain, m) \in Seq(Tasks)
      BY <1>1, <3>2, AppendProperties DEF StreamStates
    <3>4. QED
      BY <1>1, <3>1, <3>3 DEF StreamStates
  <2>4. fewer(m) \in [Messages -> Nat] /\ \A x \in Messages \ {m} : fewer(m)[x] = mail[s][x]
    BY <1>1, <2>1
  <2>5. CASE m = <<"revoke">>
    BY <2>1, <2>5, ConnectFacts DEF Only
  <2>6. CASE m # <<"revoke">>
    <3>1. /\ mail' = [mail EXCEPT ![s] = fewer(m)] /\ missed' = missed /\ page' = page
          /\ stream' = IF m = <<"new">>
                       THEN IF stream[s].queued THEN stream ELSE [stream EXCEPT ![s] = pushed]
                       ELSE [stream EXCEPT ![s] = later(m)]
      BY <2>1, <2>6
    <3> HIDE DEF pushed, later, fewer
    <3>2. mail'[s] = fewer(m) /\ MailTypes /\ missed'[s] = missed[s]
      BY <2>4, <3>1 DEF MailTypes, TypeOK
    <3>3. CASE m = <<"new">>
      <4>1. /\ \/ stream[s].queued /\ stream'[s] = stream[s]
               \/ stream'[s] = pushed
            /\ stream' \in [Streams -> StreamStates] /\ Only(s)
        BY <2>2, <3>1, <3>3 DEF Only, TypeOK
      <4>2. QED
        BY <2>4, <3>2, <3>3, <4>1 DEF pushed
    <3>4. CASE m # <<"new">>
      <4>1. /\ stream'[s] = later(m)
            /\ stream' \in [Streams -> StreamStates] /\ Only(s)
        BY <2>3, <2>6, <3>1, <3>4 DEF Only, TypeOK
      <4>2. PICK r \in Rows : m = <<"retract", r>>
        BY <2>3, <2>6, <3>4
      <4>3. stream'[s] = [stream[s] EXCEPT !.chain = Append(stream[s].chain, <<"retract", r>>)]
        BY <4>1, <4>2 DEF later
      <4>4. \A x \in Messages \ {<<"retract", r>>} : mail'[s][x] = mail[s][x]
        BY <2>4, <3>2, <4>2
      <4>5. QED
        BY <3>2, <4>1, <4>3, <4>4
    <3>5. QED
      BY <3>3, <3>4
  <2>7. QED
    BY <2>5, <2>6
<1>6. QED
  BY <1>2, <1>3, <1>4, <1>5

\* What was committed is read: the stream after deliver()'s first await.
Reading(s, rows, last, since, queued) ==
    [stream[s] EXCEPT !.queued = queued, !.last = last, !.batch = rows \cap Wants[s],
                      !.fresh = {r \in rows : row[r].status = "pending"}, !.since = since,
                      !.at = IF rows \cap Wants[s] = {} THEN "write" ELSE "deliver"]

LEMMA ReadingTypes ==
    ASSUME TypeOK, NEW s \in Streams, NEW rows \in SUBSET Rows, NEW last \in Nat,
           NEW since \in Nat, NEW queued \in BOOLEAN
    PROVE  Reading(s, rows, last, since, queued) \in StreamStates
<1>1. stream[s] \in StreamStates
  BY DEF TypeOK
<1>2. rows \cap Wants[s] \in SUBSET Rows /\ {r \in rows : row[r].status = "pending"} \in SUBSET Rows
  OBVIOUS
<1>3. QED
  BY <1>1, <1>2 DEF Reading, StreamStates

LEMMA ReadingFields ==
    ASSUME TypeOK, NEW s \in Streams, NEW rows, NEW last, NEW since, NEW queued, NEW st,
           st = Reading(s, rows, last, since, queued)
    PROVE  /\ st.pc = stream[s].pc /\ st.sub = stream[s].sub
           /\ st.at \in {"write", "deliver"} /\ st.chain = stream[s].chain
           /\ st.queued = queued /\ st.last = last /\ st.top = stream[s].top
           /\ st.since = since /\ st.batch = rows \cap Wants[s]
           /\ st.wrote = stream[s].wrote
<1>1. stream[s] \in StreamStates
  BY DEF TypeOK
<1>2. QED
  BY <1>1 DEF Reading, StreamStates

\* What a start and a push read.
LEMMA FetchFacts ==
    ASSUME TypeOK, NEW s \in Streams, Fetch(s)
    PROVE  \E rows \in SUBSET Sendable, last \in Nat :
              /\ stream'[s] = Reading(s, rows, last, Newest, stream[s].queued)
              /\ \A r \in rows : r <= last
              /\ last \in Committed \cup {stream[s].last, stream[s].top}
              /\ stream' \in [Streams -> StreamStates] /\ Only(s)
<1> DEFINE after  == page[s].lastId
           replay == NewestOf(ReplayLimit, {r \in Sendable : r > after})
           first  == OldestOf(FirstLimit,
                              {r \in Sendable : row[r].status = "pending" /\ ~row[r].old})
<1>1. stream[s] \in StreamStates
  BY DEF TypeOK
<1>2. stream[s].last \in Nat /\ stream[s].top \in Nat
  BY <1>1 DEF StreamStates
<1>3. /\ replay \subseteq Sendable /\ first \subseteq Sendable /\ Sendable \subseteq Committed
      /\ Committed \subseteq Rows /\ Rows \subseteq Nat \ {0}
  BY RowSets DEF Rows
<1>4. \/ Deliver(s, first, stream[s].last)
      \/ Deliver(s, replay, IF replay = {} THEN stream[s].top ELSE Min(replay) - 1)
  BY DEF Fetch
<1> HIDE DEF replay, first
<1>5. Newest \in Nat
  <2>1. Newest \in Committed \cup {0}
    BY RowSets
  <2>2. QED
    BY <1>3, <2>1
<1>6. ASSUME NEW rows \in SUBSET Sendable, NEW l \in Nat, Deliver(s, rows, l),
             l \in {stream[s].last, stream[s].top} \/ (\E r \in rows : l < r)
      PROVE  \E last \in Nat :
                /\ stream'[s] = Reading(s, rows, last, Newest, stream[s].queued)
                /\ \A r \in rows : r <= last
                /\ last \in Committed \cup {stream[s].last, stream[s].top}
                /\ stream' \in [Streams -> StreamStates] /\ Only(s)
  <2> DEFINE last == Max(rows \cup {l})
             st == Reading(s, rows, last, Newest, stream[s].queued)
  <2>1. rows \in SUBSET Rows /\ rows \subseteq Nat
    BY <1>3
  <2>2. last \in rows \cup {l} /\ \A x \in rows \cup {l} : x <= last
    BY <2>1, RowExtremes
  <2> HIDE DEF last
  <2>3. last \in Nat /\ last \in Committed \cup {stream[s].last, stream[s].top}
    <3>1. last \in Nat
      BY <2>1, <2>2
    <3>2. (\E r \in rows : l < r) => last # l
      BY <2>1, <2>2, <3>1
    <3>3. QED
      BY <1>3, <1>6, <2>2, <3>1, <3>2
  <2>4. stream[s].queued \in BOOLEAN
    BY <1>1 DEF StreamStates
  <2>5. st \in StreamStates
    BY <1>5, <2>1, <2>3, <2>4, ReadingTypes
  <2>6. stream' = [stream EXCEPT ![s] = st]
    <3>1. stream[s] = [stream[s] EXCEPT !.queued = stream[s].queued]
      BY <1>1 DEF StreamStates
    <3>2. st = [stream[s] EXCEPT !.last = last, !.batch = rows \cap Wants[s],
                   !.fresh = {r \in rows : row[r].status = "pending"}, !.since = Newest,
                   !.at = IF rows \cap Wants[s] = {} THEN "write" ELSE "deliver"]
      BY <1>1, <3>1 DEF Reading, StreamStates
    <3>3. QED
      BY <1>6, <3>2 DEF Deliver, last
  <2> HIDE DEF st
  <2>7. stream'[s] = st /\ stream' \in [Streams -> StreamStates] /\ Only(s)
    BY <2>5, <2>6 DEF Fetch, Only, TypeOK
  <2>8. QED
    BY <2>2, <2>3, <2>7 DEF st
<1>7. CASE Deliver(s, first, stream[s].last)
  BY <1>2, <1>3, <1>6, <1>7
<1>8. CASE Deliver(s, replay, IF replay = {} THEN stream[s].top ELSE Min(replay) - 1)
  <2>1. CASE replay = {}
    BY <1>2, <1>3, <1>6, <1>8, <2>1
  <2>2. CASE replay # {}
    <3>1. replay \in SUBSET Rows
      BY <1>3
    <3>2. Min(replay) \in replay
      BY <2>2, <3>1, RowExtremes
    <3>3. Min(replay) - 1 \in Nat /\ Min(replay) - 1 < Min(replay)
      <4>1. Min(replay) \in Nat \ {0}
        BY <1>3, <3>2
      <4>2. QED
        BY <4>1
    <3>4. QED
      BY <1>3, <1>6, <1>8, <2>2, <3>2, <3>3
  <2>3. QED
    BY <2>1, <2>2
<1>9. QED
  BY <1>4, <1>7, <1>8

LEMMA PushFacts ==
    ASSUME TypeOK, NEW s \in Streams, Push(s)
    PROVE  \E rows \in SUBSET Rows, last \in Nat :
              /\ rows = OldestOf(PushLimit, Unseen(s))
              /\ stream'[s] = Reading(s, rows, last, stream[s].since, NoStream.queued)
              /\ rows \subseteq Unseen(s) /\ \A r \in rows : r <= last
              /\ last \in rows \cup {stream[s].last}
              /\ missed'[s].late = Unseen(s) \ rows
              /\ missed'[s].unaware = missed[s].unaware
              /\ stream' \in [Streams -> StreamStates] /\ MailTypes /\ Only(s)
<1> DEFINE rows == OldestOf(PushLimit, Unseen(s))
           last == Max(rows \cup {stream[s].last})
           st   == Reading(s, rows, last, stream[s].since, NoStream.queued)
<1>1. stream[s] \in StreamStates
  BY DEF TypeOK
<1>2. stream[s].last \in Nat /\ stream[s].since \in Nat
  BY <1>1 DEF StreamStates
<1>3. rows \subseteq Unseen(s) /\ rows \in SUBSET Rows /\ Rows \subseteq Nat
  BY RowSets DEF Rows, Unseen
<1>4. stream' = [stream EXCEPT ![s].queued = FALSE, ![s].last = last,
                               ![s].batch = rows \cap Wants[s],
                               ![s].fresh = {r \in rows : row[r].status = "pending"},
                               ![s].at = IF rows \cap Wants[s] = {} THEN "write" ELSE "deliver"]
  BY DEF Push
<1>11. /\ mail' = mail /\ page' = page
       /\ missed' = [missed EXCEPT ![s].late = Unseen(s) \ rows]
  BY DEF Push
<1> HIDE DEF rows
<1>5. last \in rows \cup {stream[s].last} /\ \A x \in rows \cup {stream[s].last} : x <= last
  BY <1>2, <1>3, RowExtremes
<1> HIDE DEF last
<1>6. last \in Nat
  BY <1>2, <1>3, <1>5
<1>7. st \in StreamStates
  <2>1. NoStream.queued \in BOOLEAN
    BY DEF NoStream
  <2>2. QED
    BY <1>2, <1>3, <1>6, <2>1, ReadingTypes
<1>8. stream' = [stream EXCEPT ![s] = st]
  <2>1. st = [stream[s] EXCEPT !.queued = FALSE, !.last = last, !.batch = rows \cap Wants[s],
                  !.fresh = {r \in rows : row[r].status = "pending"},
                  !.at = IF rows \cap Wants[s] = {} THEN "write" ELSE "deliver"]
    BY <1>1 DEF Reading, StreamStates, NoStream
  <2>2. QED
    BY <1>4, <2>1
<1> HIDE DEF st
<1>9. /\ stream'[s] = st /\ stream' \in [Streams -> StreamStates] /\ MailTypes /\ Only(s)
      /\ missed'[s].late = Unseen(s) \ rows /\ missed'[s].unaware = missed[s].unaware
  <2> DEFINE left == Unseen(s) \ rows
             lost == [missed[s] EXCEPT !.late = left]
  <2>1. missed[s] \in Misses /\ left \in SUBSET Rows
    BY RowSets DEF TypeOK, Unseen
  <2>2. missed' = [missed EXCEPT ![s] = lost]
    BY <1>11
  <2> HIDE DEF left
  <2>3. lost \in Misses /\ lost.late = left /\ lost.unaware = missed[s].unaware
    BY <2>1 DEF Misses
  <2> HIDE DEF lost
  <2>4. missed'[s] = lost /\ MailTypes /\ \A t \in Streams \ {s} : missed'[t] = missed[t]
    BY <1>11, <2>2, <2>3 DEF TypeOK, MailTypes
  <2>5. stream'[s] = st /\ stream' \in [Streams -> StreamStates] /\ Only(s)
    BY <1>7, <1>8, <1>11, <2>4 DEF Only, TypeOK
  <2>6. QED
    BY <2>3, <2>4, <2>5 DEF left
<1>10. QED
  <2>1. rows = OldestOf(PushLimit, Unseen(s))
    BY DEF rows
  <2>2. rows \subseteq Unseen(s) /\ \A r \in rows : r <= last
    BY <1>3, <1>5
  <2>3. stream'[s] = Reading(s, rows, last, stream[s].since, NoStream.queued)
    BY <1>9 DEF st
  <2>4. QED
    BY <1>3, <1>5, <1>6, <1>9, <2>1, <2>2, <2>3

\* Starting, recording and writing.
LEMMA WriteFacts ==
    ASSUME TypeOK, NEW s \in Streams
    PROVE  /\ Start(s) =>
                /\ stream'[s] = [stream[s] EXCEPT !.top = Newest, !.at = "fetch"]
                /\ stream' \in [Streams -> StreamStates] /\ Only(s)
           /\ RecordSends(s) =>
                /\ stream'[s] = [stream[s] EXCEPT !.at = "write"]
                /\ stream' \in [Streams -> StreamStates] /\ Only(s)
           /\ Write(s) /\ stream[s].chain # <<>> =>
                /\ stream'[s] = [stream[s] EXCEPT
                                   !.at = "idle", !.chain = Tail(stream[s].chain), !.batch = {},
                                   !.fresh = {}, !.wrote = stream[s].wrote \cup stream[s].batch,
                                   !.last = Passed(s)]
                /\ page'[s].shown = page[s].shown \cup (stream[s].batch \ page[s].retracted)
                /\ page'[s].retracted = page[s].retracted
                /\ stream' \in [Streams -> StreamStates] /\ page' \in [Streams -> Pages]
                /\ Only(s)
           /\ WriteRetract(s) =>
                \E r \in Rows :
                   /\ Head(stream[s].chain) = <<"retract", r>>
                   /\ stream'[s] = [stream[s] EXCEPT !.chain = Tail(stream[s].chain)]
                   /\ page'[s].shown = page[s].shown \ {r}
                   /\ page'[s].retracted = page[s].retracted \cup {r}
                   /\ stream' \in [Streams -> StreamStates] /\ page' \in [Streams -> Pages]
                   /\ Only(s)
           /\ Passed(s) \in {stream[s].last} \cup (IF Task(s) = <<"start">> THEN {stream[s].top} ELSE {})
           /\ stream[s].last <= Passed(s)
<1>1. stream[s] \in StreamStates /\ page[s] \in Pages
  BY DEF TypeOK
<1>2. stream[s].last \in Nat /\ stream[s].top \in Nat /\ stream[s].chain \in Seq(Tasks)
  BY <1>1 DEF StreamStates
<1>3. /\ Passed(s) \in {stream[s].last} \cup (IF Task(s) = <<"start">> THEN {stream[s].top} ELSE {})
      /\ stream[s].last <= Passed(s) /\ Passed(s) \in Nat
  <2> DEFINE a == stream[s].last
             b == stream[s].top
  <2>1. Max({a, b}) \in {a, b} /\ a <= Max({a, b})
    <3>1. \E x \in {a, b} : \A y \in {a, b} : x >= y
      BY <1>2
    <3> HIDE DEF a, b
    <3>2. QED
      BY <3>1 DEF Max
  <2>2. QED
    BY <1>2, <2>1 DEF Passed
<1>4. ASSUME Start(s)
      PROVE  /\ stream'[s] = [stream[s] EXCEPT !.top = Newest, !.at = "fetch"]
             /\ stream' \in [Streams -> StreamStates] /\ Only(s)
  <2>1. Newest \in Nat
    BY RowSets DEF Rows
  <2>2. [stream[s] EXCEPT !.top = Newest, !.at = "fetch"] \in StreamStates
    BY <1>1, <2>1 DEF StreamStates
  <2>3. QED
    BY <1>4, <2>2 DEF Start, Only, TypeOK
<1>5. ASSUME RecordSends(s)
      PROVE  /\ stream'[s] = [stream[s] EXCEPT !.at = "write"]
             /\ stream' \in [Streams -> StreamStates] /\ Only(s)
  <2>1. [stream[s] EXCEPT !.at = "write"] \in StreamStates
    BY <1>1 DEF StreamStates
  <2>2. QED
    BY <1>5, <2>1 DEF RecordSends, Only, TypeOK
<1>6. ASSUME Write(s), stream[s].chain # <<>>
      PROVE  /\ stream'[s] = [stream[s] EXCEPT
                                !.at = "idle", !.chain = Tail(stream[s].chain), !.batch = {},
                                !.fresh = {}, !.wrote = stream[s].wrote \cup stream[s].batch,
                                !.last = Passed(s)]
             /\ page'[s].shown = page[s].shown \cup (stream[s].batch \ page[s].retracted)
             /\ page'[s].retracted = page[s].retracted
             /\ stream' \in [Streams -> StreamStates] /\ page' \in [Streams -> Pages]
             /\ Only(s)
  <2> DEFINE st == [stream[s] EXCEPT
                      !.at = "idle", !.chain = Tail(stream[s].chain), !.batch = {},
                      !.fresh = {}, !.wrote = stream[s].wrote \cup stream[s].batch,
                      !.last = Passed(s)]
             newest == Max(stream[s].batch \cup {page[s].lastId})
             p == [page[s] EXCEPT !.shown = page[s].shown \cup (stream[s].batch \ page[s].retracted),
                                  !.lastId = newest]
  <2>1. /\ Tail(stream[s].chain) \in Seq(Tasks) /\ stream[s].batch \in SUBSET Rows
        /\ stream[s].wrote \in SUBSET Rows
    BY <1>1, <1>2, <1>6, HeadTailProperties DEF StreamStates
  <2>2. st \in StreamStates
    BY <1>1, <1>3, <2>1 DEF StreamStates
  <2>3. newest \in Nat
    <3>1. page[s].lastId \in Nat /\ stream[s].batch \subseteq Nat
      BY <1>1, <2>1 DEF Pages, Rows
    <3>2. QED
      BY <2>1, <3>1, RowExtremes, ZenonT(60)
  <2>4. /\ stream' = [stream EXCEPT ![s] = st] /\ page' = [page EXCEPT ![s] = p]
        /\ mail' = mail /\ missed' = missed
    BY <1>6 DEF Write
  <2> HIDE DEF newest, st
  <2>5. /\ p \in Pages /\ p.shown = page[s].shown \cup (stream[s].batch \ page[s].retracted)
        /\ p.retracted = page[s].retracted
    BY <1>1, <2>1, <2>3 DEF Pages
  <2> HIDE DEF p
  <2>6. /\ stream'[s] = st /\ page'[s] = p /\ Only(s)
        /\ stream' \in [Streams -> StreamStates] /\ page' \in [Streams -> Pages]
    BY <2>2, <2>4, <2>5 DEF Only, TypeOK
  <2>7. QED
    BY <2>5, <2>6 DEF st
<1>7. ASSUME WriteRetract(s)
      PROVE  \E r \in Rows :
                   /\ Head(stream[s].chain) = <<"retract", r>>
                   /\ stream'[s] = [stream[s] EXCEPT !.chain = Tail(stream[s].chain)]
                   /\ page'[s].shown = page[s].shown \ {r}
                   /\ page'[s].retracted = page[s].retracted \cup {r}
                   /\ stream' \in [Streams -> StreamStates] /\ page' \in [Streams -> Pages]
                   /\ Only(s)
  <2>1. /\ stream[s].chain # <<>> /\ Head(stream[s].chain)[1] = "retract"
        /\ Head(stream[s].chain) \in Tasks /\ Tail(stream[s].chain) \in Seq(Tasks)
    BY <1>2, <1>7, HeadTailProperties DEF WriteRetract, RetractTurn
  <2>2. PICK r \in Rows : Head(stream[s].chain) = <<"retract", r>>
    BY <2>1, Tags DEF Tasks
  <2>3. Head(stream[s].chain)[2] = r
    BY <2>2
  <2> DEFINE st == [stream[s] EXCEPT !.chain = Tail(stream[s].chain)]
             p == [page[s] EXCEPT !.shown = page[s].shown \ {r},
                                  !.retracted = page[s].retracted \cup {r}]
  <2>4. stream' = [stream EXCEPT ![s] = st] /\ page' = [page EXCEPT ![s] = p]
        /\ mail' = mail /\ missed' = missed
    BY <1>7, <2>3 DEF WriteRetract
  <2>5. st \in StreamStates /\ p \in Pages
    BY <1>1, <2>1 DEF StreamStates, Pages
  <2>6. p.shown = page[s].shown \ {r} /\ p.retracted = page[s].retracted \cup {r}
    BY <1>1 DEF Pages
  <2> HIDE DEF st, p
  <2>7. /\ stream'[s] = st /\ page'[s] = p /\ Only(s)
        /\ stream' \in [Streams -> StreamStates] /\ page' \in [Streams -> Pages]
    BY <2>4, <2>5 DEF Only, TypeOK
  <2>8. QED
    BY <2>2, <2>6, <2>7 DEF st
<1>8. QED
  BY <1>3, <1>4, <1>5, <1>6, <1>7

-----------------------------------------------------------------------------
(* Deliveries *)

\* Nothing was committed, shown again or hidden.
Tame ==
    /\ Committed' = Committed
    /\ \A r \in Rows : (Live(r)' => Live(r)) /\ (row'[r].hidden => row[r].hidden)

RowTypes == row' \in [Rows -> RowStates] /\ events' \in [Rows -> SUBSET {"delivered", "failed"}]

\* A transaction takes the next number: no row after it is committed, every row before it is.
LEMMA InsertFacts ==
    ASSUME IInv, Insert
    PROVE  RowTypes /\ next' \in 1..MaxRows + 1 /\ RowsOK' /\ Tame
<1>1. /\ row \in [Rows -> RowStates] /\ next \in Rows /\ next' = next + 1
      /\ row' = [row EXCEPT ![next].status = "open"] /\ events' = events /\ hides' = hides
      /\ events \in [Rows -> SUBSET {"delivered", "failed"}]
  BY DEF IInv, TypeOK, Insert
<1>2. \A r \in Rows : row[r].status # "open"
  BY DEF Insert, StreamLock
<1>3. /\ \A r \in Rows \ {next} : row'[r] = row[r]
      /\ row'[next].status = "open" /\ row'[next].hidden = row[next].hidden
      /\ row'[next].old = row[next].old /\ row' \in [Rows -> RowStates]
  BY <1>1 DEF RowStates
<1>4. row[next].status = "none"
  BY <1>1 DEF IInv, RowsOK, Rows
<1>5. next' \in 1..MaxRows + 1
  BY <1>1, OverlayConstantsOK DEF Rows
<1>6. RowsOK'
  <2> SUFFICES ASSUME NEW r \in Rows
               PROVE  /\ row'[r].status = "none" <=> next' <= r
                      /\ row'[r].status = "open" => r = next' - 1
                      /\ row'[r].hidden => hides'[r] > 0
                      /\ events'[r] = IF row'[r].status \in {"delivered", "failed"}
                                      THEN {row'[r].status} ELSE {}
    BY DEF RowsOK
  <2>1. /\ row[r].status = "none" <=> next <= r
        /\ row[r].hidden => hides[r] > 0
        /\ events[r] = IF row[r].status \in {"delivered", "failed"} THEN {row[r].status} ELSE {}
    BY DEF IInv, RowsOK
  <2>2. r \in Nat /\ next \in Nat
    BY <1>1 DEF Rows
  <2>3. CASE r = next
    BY <1>1, <1>3, <1>4, <2>1, <2>2, <2>3
  <2>4. CASE r # next
    BY <1>1, <1>2, <1>3, <2>1, <2>2, <2>4
  <2>5. QED
    BY <2>3, <2>4
<1>7. Tame
  <2>1. Committed' = Committed
    BY <1>3, <1>4 DEF Committed
  <2>2. QED
    BY <1>1, <1>3, <2>1 DEF Tame, Live, Committed
<1>8. QED
  BY <1>1, <1>3, <1>5, <1>6, <1>7 DEF RowTypes

\* A commit shows one more row, the last one numbered.
LEMMA CommitFacts ==
    ASSUME IInv, NEW r \in Rows, Commit(r)
    PROVE  /\ RowTypes /\ next' = next /\ RowsOK'
           /\ Committed' = Committed \cup {r} /\ r \notin Committed
           /\ \A q \in Rows \ Committed : r <= q
           /\ \A q \in Rows \ {r} : (Live(q)' <=> Live(q)) /\ row'[q] = row[q]
           /\ row'[r].hidden => row[r].hidden
<1>1. /\ row \in [Rows -> RowStates] /\ row[r].status = "open" /\ next' = next
      /\ row' = [row EXCEPT ![r].status = "pending"] /\ events' = events /\ hides' = hides
      /\ events \in [Rows -> SUBSET {"delivered", "failed"}]
  BY DEF IInv, TypeOK, Commit
<1>2. /\ \A q \in Rows \ {r} : row'[q] = row[q]
      /\ row'[r].status = "pending" /\ row'[r].hidden = row[r].hidden
      /\ row' \in [Rows -> RowStates]
  BY <1>1 DEF RowStates
<1>3. r = next - 1 /\ next \in Nat /\ Rows \subseteq Nat
  BY <1>1 DEF IInv, RowsOK, TypeOK, Rows
<1>4. \A q \in Rows \ Committed : r <= q
  <2> SUFFICES ASSUME NEW q \in Rows, q \notin Committed PROVE r <= q
    OBVIOUS
  <2>1. row[q].status = "none" \/ row[q].status = "open"
    BY DEF Committed
  <2>2. next <= q \/ q = next - 1
    BY <2>1 DEF IInv, RowsOK
  <2>3. q \in Nat
    BY <1>3
  <2>4. QED
    BY <1>3, <2>2, <2>3
<1>5. RowsOK'
  <2>1. \A q \in Rows : (row'[q].status = "none" <=> row[q].status = "none")
    BY <1>1, <1>2
  <2>2. QED
    BY <1>1, <1>2, <2>1 DEF IInv, RowsOK
<1>6. Committed' = Committed \cup {r} /\ r \notin Committed
  BY <1>1, <1>2 DEF Committed
<1>7. \A q \in Rows \ {r} : Live(q)' <=> Live(q)
  BY <1>1, <1>2, <1>6 DEF Live
<1>8. QED
  BY <1>1, <1>2, <1>4, <1>5, <1>6, <1>7 DEF RowTypes

\* A moderator hides one committed row, and counts that it was hidden.
LEMMA RetractFacts ==
    ASSUME IInv, NEW r \in Rows, Retract(r)
    PROVE  /\ RowTypes /\ next' = next /\ RowsOK' /\ Committed' = Committed
           /\ hides' \in [Rows -> Nat]
           /\ \A q \in Rows : (Live(q)' => Live(q)) /\ (q # r => row'[q] = row[q])
<1>1. /\ row \in [Rows -> RowStates] /\ r \in Committed /\ next' = next
      /\ row' = [row EXCEPT ![r].hidden = TRUE] /\ events' = events
      /\ hides' = [hides EXCEPT ![r] = hides[r] + 1]
      /\ events \in [Rows -> SUBSET {"delivered", "failed"}] /\ hides \in [Rows -> Nat]
  BY DEF IInv, TypeOK, Retract
<1>2. /\ \A q \in Rows : q # r => row'[q] = row[q]
      /\ row'[r].status = row[r].status
      /\ row' \in [Rows -> RowStates]
  BY <1>1 DEF RowStates
<1>3. /\ hides'[r] > 0 /\ hides' \in [Rows -> Nat]
      /\ \A q \in Rows : q # r => hides'[q] = hides[q]
  BY <1>1
<1>4. RowsOK'
  <2>1. \A q \in Rows : row'[q].status = row[q].status
    BY <1>2
  <2>2. \A q \in Rows : row'[q].hidden => hides'[q] > 0
    BY <1>2, <1>3 DEF IInv, RowsOK
  <2>3. QED
    BY <1>1, <2>1, <2>2 DEF IInv, RowsOK
<1>5. Committed' = Committed
  BY <1>2 DEF Committed
<1>6. \A q \in Rows : Live(q)' => Live(q)
  <2>1. ~Live(r)'
    <3>1. hides'[r] \in Nat /\ hides'[r] > 0
      BY <1>3
    <3>2. QED
      BY <3>1 DEF Live
  <2>2. \A q \in Rows : q # r => (Live(q)' <=> Live(q))
    BY <1>2, <1>3, <1>5 DEF Live
  <2>3. QED
    BY <2>1, <2>2
<1>7. QED
  BY <1>1, <1>2, <1>3, <1>4, <1>5, <1>6 DEF RowTypes

\* Everything else that changes a delivery commits and hides nothing.
LEMMA TameFacts ==
    ASSUME IInv,
           \/ \E r \in Rows : Unretract(r) \/ WindowEnds(r) \/ SweepFailed(r)
           \/ \E s \in Streams : RecordSends(s)
           \/ UNCHANGED <<row, next, events, hides>>
    PROVE  RowTypes /\ next' = next /\ RowsOK' /\ Tame
<1>1. /\ row \in [Rows -> RowStates] /\ hides \in [Rows -> Nat]
      /\ events \in [Rows -> SUBSET {"delivered", "failed"}]
  BY DEF IInv, TypeOK
<1>2. ASSUME NEW r \in Rows, Unretract(r)
      PROVE  RowTypes /\ next' = next /\ RowsOK' /\ Tame
  <2>1. /\ row' = [row EXCEPT ![r].hidden = FALSE] /\ next' = next /\ events' = events
        /\ hides' = hides /\ row[r].hidden
    BY <1>2 DEF Unretract
  <2>2. /\ \A q \in Rows : q # r => row'[q] = row[q]
        /\ row'[r].status = row[r].status /\ row'[r].hidden = FALSE
        /\ row' \in [Rows -> RowStates]
    BY <1>1, <2>1 DEF RowStates
  <2>3. hides[r] > 0 /\ hides[r] \in Nat
    BY <1>1, <2>1 DEF IInv, RowsOK
  <2>4. \A q \in Rows : row'[q].status = row[q].status /\ (row'[q].hidden => row[q].hidden)
    BY <2>2
  <2>5. RowsOK'
    BY <2>1, <2>4 DEF IInv, RowsOK
  <2>6. Committed' = Committed
    BY <2>4 DEF Committed
  <2>7. \A q \in Rows : Live(q)' => Live(q)
    <3>1. ~Live(r)'
      BY <2>1, <2>3 DEF Live
    <3>2. \A q \in Rows : q # r => (Live(q)' <=> Live(q))
      BY <2>1, <2>2, <2>6 DEF Live
    <3>3. QED
      BY <3>1, <3>2
  <2>8. QED
    BY <1>1, <2>1, <2>2, <2>4, <2>5, <2>6, <2>7 DEF RowTypes, Tame
<1>3. ASSUME NEW r \in Rows, WindowEnds(r)
      PROVE  RowTypes /\ next' = next /\ RowsOK' /\ Tame
  <2>1. /\ row' = [row EXCEPT ![r].old = TRUE] /\ next' = next /\ events' = events
        /\ hides' = hides
    BY <1>3 DEF WindowEnds
  <2>2. /\ \A q \in Rows : q # r => row'[q] = row[q]
        /\ row'[r].status = row[r].status /\ row'[r].hidden = row[r].hidden /\ row'[r].old
        /\ row' \in [Rows -> RowStates]
    BY <1>1, <2>1 DEF RowStates
  <2>4. \A q \in Rows : /\ row'[q].status = row[q].status /\ row'[q].hidden = row[q].hidden
                        /\ row[q].old => row'[q].old
    BY <2>2
  <2>5. RowsOK'
    BY <2>1, <2>4 DEF IInv, RowsOK
  <2>6. Committed' = Committed
    BY <2>4 DEF Committed
  <2>7. \A q \in Rows : Live(q)' => Live(q)
    BY <2>1, <2>4, <2>6 DEF Live
  <2>8. QED
    BY <1>1, <2>1, <2>2, <2>4, <2>5, <2>6, <2>7 DEF RowTypes, Tame
<1>4. ASSUME NEW r \in Rows, SweepFailed(r)
      PROVE  RowTypes /\ next' = next /\ RowsOK' /\ Tame
  <2>1. /\ row' = [row EXCEPT ![r].status = "failed"] /\ next' = next
        /\ events' = [events EXCEPT ![r] = @ \cup {"failed"}]
        /\ hides' = hides /\ row[r].status = "pending"
    BY <1>4 DEF SweepFailed
  <2>2. /\ \A q \in Rows : q # r => row'[q] = row[q] /\ events'[q] = events[q]
        /\ row'[r].status = "failed" /\ row'[r].hidden = row[r].hidden
        /\ row'[r].old = row[r].old /\ row' \in [Rows -> RowStates]
        /\ events'[r] = events[r] \cup {"failed"}
    BY <1>1, <2>1 DEF RowStates
  <2>3. events'[r] = {"failed"} /\ events' \in [Rows -> SUBSET {"delivered", "failed"}]
    BY <1>1, <2>1, <2>2 DEF IInv, RowsOK
  <2>5. RowsOK'
    <3>1. \A q \in Rows : row'[q].status = "none" <=> row[q].status = "none"
      BY <2>1, <2>2
    <3>2. QED
      BY <2>1, <2>2, <2>3, <3>1 DEF IInv, RowsOK
  <2>6. Committed' = Committed
    BY <2>1, <2>2 DEF Committed
  <2>7. \A q \in Rows : Live(q)' => Live(q)
    BY <2>1, <2>2, <2>6 DEF Live
  <2>8. QED
    BY <2>1, <2>2, <2>3, <2>5, <2>6, <2>7 DEF RowTypes, Tame
<1>5. ASSUME NEW s \in Streams, RecordSends(s)
      PROVE  RowTypes /\ next' = next /\ RowsOK' /\ Tame
  <2> DEFINE F == FirstSends(s)
  <2>1. /\ row' = [r \in Rows |-> IF r \in F THEN [row[r] EXCEPT !.status = "delivered"]
                                   ELSE row[r]]
        /\ events' = [r \in Rows |-> IF r \in F THEN events[r] \cup {"delivered"} ELSE events[r]]
        /\ next' = next /\ hides' = hides
    BY <1>5 DEF RecordSends
  <2>2. \A r \in F : row[r].status = "pending"
    BY DEF FirstSends
  <2> HIDE DEF F
  <2>3. \A r \in Rows :
          /\ r \in F => row'[r].status = "delivered" /\ row[r].status = "pending"
          /\ r \notin F => row'[r].status = row[r].status
          /\ row'[r].hidden = row[r].hidden /\ row'[r].old = row[r].old
          /\ row'[r] \in RowStates
    BY <1>1, <2>1, <2>2 DEF RowStates
  <2>4. \A r \in Rows : events'[r] = IF r \in F THEN {"delivered"} ELSE events[r]
    BY <1>1, <2>1, <2>2 DEF IInv, RowsOK
  <2>5. RowsOK'
    <3>1. \A q \in Rows : row'[q].status = "none" <=> row[q].status = "none"
      BY <2>3
    <3>2. ASSUME NEW r \in Rows
          PROVE  /\ row'[r].status = "none" <=> next' <= r
                 /\ row'[r].status = "open" => r = next' - 1
                 /\ row'[r].hidden => hides'[r] > 0
      BY <2>1, <2>3, <3>1 DEF IInv, RowsOK
    <3>3. ASSUME NEW r \in Rows
          PROVE  events'[r] = IF row'[r].status \in {"delivered", "failed"}
                              THEN {row'[r].status} ELSE {}
      BY <2>3, <2>4 DEF IInv, RowsOK
    <3>4. QED
      BY <3>2, <3>3 DEF RowsOK
  <2>6. Committed' = Committed
    BY <2>3 DEF Committed
  <2>7. \A q \in Rows : Live(q)' => Live(q)
    BY <2>1, <2>3, <2>6 DEF Live
  <2>8. RowTypes
    <3>1. row' \in [Rows -> RowStates]
      BY <2>1, <2>3
    <3>2. events' \in [Rows -> SUBSET {"delivered", "failed"}]
      BY <1>1, <2>1
    <3>3. QED
      BY <3>1, <3>2 DEF RowTypes
  <2>9. QED
    BY <2>1, <2>3, <2>5, <2>6, <2>7, <2>8 DEF Tame
<1>6. CASE UNCHANGED <<row, next, events, hides>>
  <2>1. row' = row /\ next' = next /\ events' = events /\ hides' = hides
    BY <1>6
  <2>2. Committed' = Committed
    BY <2>1 DEF Committed
  <2>3. QED
    BY <1>1, <2>1, <2>2 DEF RowTypes, Tame, Live, IInv, RowsOK
<1>7. QED
  BY <1>2, <1>3, <1>4, <1>5, <1>6

-----------------------------------------------------------------------------
(* Streams while deliveries change *)

\* A stream that did nothing, while nothing was committed or hidden, is in order.
LEMMA SameStream ==
    ASSUME IInv, Tame, NEW s \in Streams,
           stream'[s] = stream[s], mail'[s] = mail[s], missed'[s] = missed[s],
           page'[s] = page[s]
    PROVE  StreamOK(s)'
<1>1. StreamOK(s)
  BY DEF IInv
<1>2. Wants[s] \subseteq Rows /\ stream[s] \in StreamStates
  BY OverlayConstantsOK DEF IInv, TypeOK
<1>3. CASE stream[s].pc # "open"
  BY <1>1, <1>3 DEF StreamOK, ClosedOK
<1>4. CASE stream[s].pc = "open"
  <2>1. OpenOK(s)
    BY <1>1, <1>4 DEF StreamOK
  <2>2. SeenOK(s)'
    BY <2>1 DEF OpenOK, SeenOK, Tame
  <2>3. SkipOK(s)'
    BY <1>2, <2>1 DEF OpenOK, SkipOK, Tame, Coming
  <2>4. TakenOK(s)'
    BY <1>2, <2>1 DEF OpenOK, TakenOK, Tame, StreamStates, Coming
  <2>5. QED
    BY <1>4, <2>1, <2>2, <2>3, <2>4 DEF OpenOK, StreamOK
<1>5. QED
  BY <1>3, <1>4

\* More to hear keeps an open stream in order, when what was committed or hidden meanwhile is
\* among it, or is known to be lost, or the stream did not read yet.
LEMMA MoreMail ==
    ASSUME IInv, Committed \subseteq Committed', NEW s \in Streams, stream[s].pc = "open",
           stream'[s] = stream[s], page'[s] = page[s],
           \A m \in Messages : Coming(s, m) => Coming(s, m)',
           \A r \in Rows : Live(r)' =>
               \/ Live(r)
               \/ /\ r \notin Committed
                  /\ \/ Coming(s, <<"new">>)' \/ r \in missed'[s].late
                     \/ stream[s].sub = "asked",
           \A r \in missed[s].late : r \in missed'[s].late \/ Coming(s, <<"new">>)',
           \A r \in Rows : row'[r].hidden =>
               \/ row[r].hidden
               \/ Coming(s, <<"retract", r>>)' \/ r \in missed'[s].unaware
               \/ stream[s].sub = "asked",
           \A r \in missed[s].unaware : r \in missed'[s].unaware \/ Coming(s, <<"retract", r>>)'
    PROVE  StreamOK(s)'
<1>1. OpenOK(s)
  BY DEF IInv, StreamOK
<1>2. /\ Wants[s] \subseteq Rows /\ stream[s] \in StreamStates
      /\ stream[s].wrote \subseteq Rows /\ stream[s].batch \subseteq Rows
      /\ MaxRows \in Nat
  BY OverlayConstantsOK DEF IInv, TypeOK, StreamStates
<1>3. /\ <<"new">> \in Messages /\ <<"revoke">> \in Messages
      /\ \A r \in Rows : <<"retract", r>> \in Messages
  BY DEF Messages
<1>4. stream[s].sub = "asked" => /\ stream[s].wrote \cup stream[s].batch = {}
                                 /\ stream[s].since = MaxRows + 1
  BY <1>1 DEF OpenOK, OrderOK
<1>5. SeenOK(s)'
  BY <1>1 DEF OpenOK, SeenOK
<1>6. SkipOK(s)'
  <2> SUFFICES ASSUME NEW r \in Wants[s], Live(r)', stream[s].since < r
               PROVE  \/ r \in stream[s].wrote \cup stream[s].batch
                      \/ /\ stream[s].last < r
                         /\ \/ r \in missed'[s].late \/ PushWaits(stream[s])
                            \/ Coming(s, <<"new">>)'
    BY DEF SkipOK
  <2>1. r \in Rows /\ stream[s].sub # "asked"
    BY <1>2, <1>4 DEF Rows
  <2>2. CASE Live(r)
    <3>1. \/ r \in stream[s].wrote \cup stream[s].batch
          \/ /\ stream[s].last < r
             /\ r \in missed[s].late \/ PushWaits(stream[s]) \/ Coming(s, <<"new">>)
      BY <1>1, <2>2 DEF OpenOK, SkipOK
    <3>2. QED
      BY <1>3, <3>1
  <2>3. CASE r \notin Committed
    BY <1>1, <2>1, <2>2, <2>3 DEF OpenOK, SeenOK
  <2>4. QED
    BY <2>1, <2>2, <2>3
<1>7. TakenOK(s)'
  <2> SUFFICES ASSUME NEW r \in stream[s].wrote \cup stream[s].batch, row'[r].hidden,
                      r \in page[s].shown \cup (stream[s].batch \ page[s].retracted)
               PROVE  \/ Coming(s, <<"retract", r>>)' \/ Coming(s, <<"revoke">>)'
                      \/ In(<<"retract", r>>, stream[s].chain)
                      \/ r \in missed'[s].unaware
    BY DEF TakenOK
  <2>1. r \in Rows /\ stream[s].sub # "asked"
    BY <1>2, <1>4
  <2>2. CASE row[r].hidden
    <3>1. \/ Coming(s, <<"retract", r>>) \/ Coming(s, <<"revoke">>)
          \/ In(<<"retract", r>>, stream[s].chain)
          \/ r \in missed[s].unaware
      BY <1>1, <2>2 DEF OpenOK, TakenOK
    <3>2. QED
      BY <1>3, <2>1, <3>1
  <2>3. QED
    BY <2>1, <2>2
<1>8. QED
  BY <1>1, <1>5, <1>6, <1>7 DEF OpenOK, StreamOK

\* Nothing comes to a stream that is closed.
LEMMA ClosedStream ==
    ASSUME IInv, NEW s \in Streams, stream[s].pc # "open", stream'[s] = stream[s],
           mail'[s] = mail[s]
    PROVE  StreamOK(s)'
  BY DEF IInv, StreamOK, ClosedOK

\* Commits, retractions and revocations reach every stream that may have to hear of them, or are
\* known to be lost.
LEMMA PublishedStreams ==
    ASSUME IInv,
           \/ \E r \in Rows : Commit(r) \/ Retract(r)
           \/ Revoke
    PROVE  MailTypes /\ failures' \in Nat /\ \A s \in Streams : StreamOK(s)'
<1>1. /\ TypeOK /\ missed \in [Streams -> Misses] /\ Open \subseteq Streams
      /\ \A s \in Streams : s \in Open <=> stream[s].pc = "open"
  BY DEF IInv, TypeOK, Open
<1>2. ASSUME NEW to \in SUBSET Open, NEW s \in Streams \ to
      PROVE  s \in Deaf(to) \/ stream[s].pc # "open" \/ stream[s].sub = "asked"
  BY <1>1 DEF Deaf
<1>3. ASSUME NEW r \in Rows, Commit(r)
      PROVE  MailTypes /\ failures' \in Nat /\ \A s \in Streams : StreamOK(s)'
  <2>1. PICK to \in SUBSET Open :
          /\ Publish(<<"new">>, to)
          /\ missed' = [s \in Streams |-> [missed[s] EXCEPT !.late =
                           IF s \in to THEN {} ELSE IF s \in Deaf(to) THEN missed[s].late \cup {r}
                                                    ELSE missed[s].late]]
    BY <1>3 DEF Commit
  <2>2. stream' = stream /\ page' = page /\ <<"new">> \in Messages
    BY <1>3 DEF Commit, Messages
  <2>3. /\ mail' \in [Streams -> [Messages -> Nat]] /\ failures' \in Nat
        /\ \A s \in to : Coming(s, <<"new">>)'
        /\ \A s \in Streams \ to : mail'[s] = mail[s]
        /\ \A s \in Streams, m \in Messages : Coming(s, m) => Coming(s, m)'
    BY <1>1, <2>1, <2>2, PublishTypes DEF Coming
  <2>4. ASSUME NEW s \in Streams
        PROVE  /\ missed'[s] \in Misses /\ missed'[s].unaware = missed[s].unaware
               /\ s \in Deaf(to) => r \in missed'[s].late
               /\ s \notin to => missed[s].late \subseteq missed'[s].late
    <3>1. missed[s] \in Misses
      BY <1>1
    <3>2. s \in Deaf(to) => s \notin to
      BY DEF Deaf
    <3>3. QED
      BY <2>1, <3>1, <3>2 DEF Misses
  <2>5. MailTypes
    <3>1. missed' \in [Streams -> Misses]
      BY <2>1, <2>4
    <3>2. QED
      BY <2>3, <3>1 DEF MailTypes
  <2>6. /\ Committed \subseteq Committed'
        /\ \A q \in Rows : Live(q)' => Live(q) \/ (q = r /\ q \notin Committed)
        /\ \A q \in Rows : row'[q].hidden => row[q].hidden
    BY <1>3, CommitFacts
  <2>7. ASSUME NEW s \in Streams, stream[s].pc = "open"
        PROVE  StreamOK(s)'
    <3>1. \A q \in Rows : Live(q)' =>
             \/ Live(q)
             \/ /\ q \notin Committed
                /\ \/ Coming(s, <<"new">>)' \/ q \in missed'[s].late
                   \/ stream[s].sub = "asked"
      <4>1. Coming(s, <<"new">>)' \/ r \in missed'[s].late \/ stream[s].sub = "asked"
        BY <1>2, <2>3, <2>4, <2>7
      <4>2. QED
        BY <2>6, <4>1
    <3>2. \A q \in missed[s].late : q \in missed'[s].late \/ Coming(s, <<"new">>)'
      BY <2>3, <2>4
    <3>3. \A q \in missed[s].unaware :
             q \in missed'[s].unaware \/ Coming(s, <<"retract", q>>)'
      BY <2>4
    <3>4. QED
      BY <2>2, <2>3, <2>6, <2>7, <3>1, <3>2, <3>3, MoreMail
  <2>8. ASSUME NEW s \in Streams, stream[s].pc # "open"
        PROVE  StreamOK(s)'
    BY <1>1, <2>2, <2>3, <2>8, ClosedStream
  <2>9. QED
    BY <2>3, <2>5, <2>7, <2>8
<1>4. ASSUME NEW r \in Rows, Retract(r)
      PROVE  MailTypes /\ failures' \in Nat /\ \A s \in Streams : StreamOK(s)'
  <2>1. PICK to \in SUBSET Open :
          /\ Publish(<<"retract", r>>, to)
          /\ missed' = [s \in Streams |-> [missed[s] EXCEPT !.unaware =
                           IF s \in to THEN missed[s].unaware \ {r}
                           ELSE IF s \in Deaf(to) THEN missed[s].unaware \cup {r}
                                ELSE missed[s].unaware]]
    BY <1>4 DEF Retract
  <2>2. stream' = stream /\ page' = page /\ <<"retract", r>> \in Messages
    BY <1>4 DEF Retract, Messages
  <2>3. /\ mail' \in [Streams -> [Messages -> Nat]] /\ failures' \in Nat
        /\ \A s \in to : Coming(s, <<"retract", r>>)'
        /\ \A s \in Streams \ to : mail'[s] = mail[s]
        /\ \A s \in Streams, m \in Messages : Coming(s, m) => Coming(s, m)'
    BY <1>1, <2>1, <2>2, PublishTypes DEF Coming
  <2>4. ASSUME NEW s \in Streams
        PROVE  /\ missed'[s] \in Misses /\ missed'[s].late = missed[s].late
               /\ s \in Deaf(to) => r \in missed'[s].unaware
               /\ s \notin to => missed[s].unaware \subseteq missed'[s].unaware
               /\ \A q \in missed[s].unaware : q # r => q \in missed'[s].unaware
    <3>1. missed[s] \in Misses
      BY <1>1
    <3>2. s \in Deaf(to) => s \notin to
      BY DEF Deaf
    <3>3. QED
      BY <2>1, <3>1, <3>2 DEF Misses
  <2>5. MailTypes
    <3>1. missed' \in [Streams -> Misses]
      BY <2>1, <2>4
    <3>2. QED
      BY <2>3, <3>1 DEF MailTypes
  <2>6. /\ Committed \subseteq Committed' /\ \A q \in Rows : Live(q)' => Live(q)
        /\ \A q \in Rows : row'[q].hidden => row[q].hidden \/ q = r
    BY <1>4, RetractFacts
  <2>7. ASSUME NEW s \in Streams, stream[s].pc = "open"
        PROVE  StreamOK(s)'
    <3>1. \A q \in Rows : row'[q].hidden =>
             \/ row[q].hidden
             \/ Coming(s, <<"retract", q>>)' \/ q \in missed'[s].unaware
             \/ stream[s].sub = "asked"
      <4>1. \/ Coming(s, <<"retract", r>>)' \/ r \in missed'[s].unaware
            \/ stream[s].sub = "asked"
        BY <1>2, <2>3, <2>4, <2>7
      <4>2. QED
        BY <2>6, <4>1
    <3>2. \A q \in missed[s].unaware :
             q \in missed'[s].unaware \/ Coming(s, <<"retract", q>>)'
      BY <2>3, <2>4
    <3>3. \A q \in missed[s].late : q \in missed'[s].late \/ Coming(s, <<"new">>)'
      BY <2>4
    <3>4. QED
      BY <2>2, <2>3, <2>6, <2>7, <3>1, <3>2, <3>3, MoreMail
  <2>8. ASSUME NEW s \in Streams, stream[s].pc # "open"
        PROVE  StreamOK(s)'
    BY <1>1, <2>2, <2>3, <2>8, ClosedStream
  <2>9. QED
    BY <2>3, <2>5, <2>7, <2>8
<1>5. ASSUME Revoke
      PROVE  MailTypes /\ failures' \in Nat /\ \A s \in Streams : StreamOK(s)'
  <2>1. PICK to \in SUBSET Open : Publish(<<"revoke">>, to)
    BY <1>5 DEF Revoke
  <2>2. /\ <<"revoke">> \in Messages /\ stream' = stream /\ missed' = missed
        /\ page' = page /\ UNCHANGED <<row, next, events, hides>>
    BY <1>5 DEF Revoke, Messages, db
  <2>3. /\ mail' \in [Streams -> [Messages -> Nat]] /\ failures' \in Nat
        /\ \A s \in Streams \ to : mail'[s] = mail[s]
        /\ \A s \in Streams, m \in Messages : Coming(s, m) => Coming(s, m)'
    BY <1>1, <2>1, <2>2, PublishTypes DEF Coming
  <2>4. MailTypes
    BY <1>1, <2>2, <2>3 DEF MailTypes
  <2>5. /\ Committed \subseteq Committed' /\ \A q \in Rows : Live(q)' => Live(q)
        /\ \A q \in Rows : row'[q].hidden => row[q].hidden
    BY <2>2, TameFacts DEF Tame
  <2>6. ASSUME NEW s \in Streams, stream[s].pc = "open"
        PROVE  StreamOK(s)'
    BY <2>2, <2>3, <2>5, <2>6, MoreMail
  <2>7. ASSUME NEW s \in Streams, stream[s].pc # "open"
        PROVE  StreamOK(s)'
    BY <1>1, <2>2, <2>3, <2>7, ClosedStream
  <2>8. QED
    BY <2>3, <2>4, <2>6, <2>7
<1>6. QED
  BY <1>3, <1>4, <1>5

-----------------------------------------------------------------------------
(* Connections *)

\* A place taken, a connection that ended.
LEMMA CloseStream ==
    ASSUME IInv, NEW s \in Streams,
           \/ Reserve(s)
           \/ stream'[s] = NoStream /\ mail'[s] = NoMail
    PROVE  StreamOK(s)'
<1>1. CASE Reserve(s)
  <2>1. StreamOK(s) /\ stream[s].pc = "none" /\ stream[s] \in StreamStates /\ mail' = mail
    BY <1>1 DEF IInv, TypeOK, Reserve
  <2>2. stream'[s] = [stream[s] EXCEPT !.pc = "reserved"]
    BY <1>1, ConnectFacts DEF IInv
  <2>3. /\ stream'[s].pc = "reserved" /\ stream'[s].chain = stream[s].chain
        /\ stream'[s].at = stream[s].at
    BY <2>1, <2>2 DEF StreamStates
  <2>4. QED
    BY <2>1, <2>3 DEF StreamOK, ClosedOK
<1>2. CASE stream'[s] = NoStream /\ mail'[s] = NoMail
  BY <1>2 DEF StreamOK, ClosedOK, NoStream
<1>3. QED
  BY <1>1, <1>2

\* A connection begins: nothing read, a start and a push to do.
LEMMA AttachStream ==
    ASSUME IInv, NEW s \in Streams, Attach(s)
    PROVE  StreamOK(s)'
<1> DEFINE c == <<<<"start">>, <<"push">>>>
           st == stream'[s]
<1>1. /\ stream'[s] = [NoStream EXCEPT !.pc = "open", !.queued = TRUE, !.chain = c]
      /\ mail'[s] = NoMail /\ MaxRows \in Nat /\ Committed' = Committed /\ Wants[s] \subseteq Rows
  BY ConnectFacts, OverlayConstantsOK DEF IInv, Attach, db, Committed
<1>2. /\ st.pc = "open" /\ st.chain = c /\ st.queued /\ st.at = "idle" /\ st.batch = {}
      /\ st.wrote = {} /\ st.last = 0 /\ st.top = 0 /\ st.since = MaxRows + 1
      /\ st.sub = "asked"
  BY <1>1 DEF NoStream
<1>3. Len(c) = 2 /\ c[1] = <<"start">> /\ c[2] = <<"push">> /\ c # <<>>
  OBVIOUS
<1> HIDE DEF c, st
<1>4. In(<<"start">>, st.chain)
  BY <1>2, <1>3 DEF In
<1>5. PushWaits(st)
  BY <1>2, <1>3 DEF PushWaits
<1>6. ChainOK(st)
  <2>1. \A n \in 1..Len(st.chain) : st.chain[n] = <<"start">> => n = 1
    BY <1>2, <1>3, Tags
  <2>2. QED
    BY <1>2, <1>5, <2>1 DEF ChainOK
<1>7. OrderOK(st)
  BY <1>2, <1>4 DEF OrderOK
<1>8. SeenOK(s)' /\ SkipOK(s)' /\ TakenOK(s)'
  BY <1>1, <1>2 DEF SeenOK, SkipOK, TakenOK, Rows, st
<1>9. QED
  BY <1>2, <1>6, <1>7, <1>8 DEF StreamOK, OpenOK, st

\* The subscription comes into place, or fails.
LEMMA SubscribedStream ==
    ASSUME IInv, NEW s \in Streams, SubStep(s)
    PROVE  StreamOK(s)'
<1>1. /\ stream[s].pc = "open" /\ stream[s] \in StreamStates /\ OpenOK(s)
      /\ mail' = mail /\ missed' = missed /\ page' = page /\ row' = row /\ hides' = hides
  BY DEF IInv, TypeOK, SubStep, StreamOK, db
<1>2. PICK sub \in {"failed", "heard"} : stream'[s] = [stream[s] EXCEPT !.sub = sub]
  BY HearFacts DEF IInv
<1>3. LET st == stream'[s]
          so == stream[s]
      IN  /\ st.sub # "asked" /\ st.pc = "open" /\ st.chain = so.chain /\ st.queued = so.queued
          /\ st.at = so.at /\ st.batch = so.batch /\ st.wrote = so.wrote /\ st.last = so.last
          /\ st.top = so.top /\ st.since = so.since
  BY <1>1, <1>2 DEF StreamStates
<1>4. Committed' = Committed /\ \A r \in Rows : Live(r)' <=> Live(r)
  BY <1>1 DEF Committed, Live
<1>5. ChainOK(stream'[s]) /\ OrderOK(stream'[s]) /\ SeenOK(s)'
  BY <1>1, <1>3, <1>4 DEF OpenOK, ChainOK, PushWaits, OrderOK, SeenOK
<1>6. SkipOK(s)' /\ TakenOK(s)'
  BY <1>1, <1>3, <1>4, OverlayConstantsOK DEF OpenOK, SkipOK, PushWaits, TakenOK, Coming
<1>7. QED
  BY <1>3, <1>5, <1>6 DEF StreamOK, OpenOK

\* A task added to the end of a stream's chain.
LEMMA AddTask ==
    ASSUME NEW so \in StreamStates, NEW st \in StreamStates, NEW e \in Tasks, e # <<"start">>,
           ChainOK(so), OrderOK(so), st.chain = Append(so.chain, e),
           st.queued = so.queued \/ e = <<"push">>,
           st.sub = so.sub, st.at = so.at, st.batch = so.batch, st.wrote = so.wrote,
           st.last = so.last, st.since = so.since
    PROVE  /\ ChainOK(st) /\ OrderOK(st) /\ (PushWaits(so) => PushWaits(st))
           /\ e = <<"push">> => PushWaits(st)
           /\ \A x : In(x, st.chain) <=> In(x, so.chain) \/ x = e
<1> DEFINE c == so.chain
           d == Append(so.chain, e)
<1>1. /\ c \in Seq(Tasks) /\ Len(c) \in Nat /\ Len(d) = Len(c) + 1 /\ d # <<>>
      /\ \A n \in 1..Len(c) : d[n] = c[n]
      /\ d[Len(c) + 1] = e
      /\ c # <<>> => Len(c) > 0 /\ Head(c) = c[1] /\ Head(d) = c[1]
      /\ c = <<>> => Len(c) = 0
  <2>1. c \in Seq(Tasks)
    BY DEF StreamStates
  <2> HIDE DEF c
  <2>2. Append(c, e) # <<>>
    BY <2>1, AppendProperties
  <2>3. QED
    BY <2>1, <2>2, AppendProperties, LenProperties, EmptySeq, HeadTailAppend DEF c
<1>2. \A x : In(x, d) <=> In(x, c) \/ x = e
  BY <1>1, InAppend
<1>3. st.chain = d
  OBVIOUS
<1> HIDE DEF c, d
<1>4. \A n \in 1..Len(d) : n \in 1..Len(c) \/ n = Len(c) + 1
  BY <1>1
<1>5. PushWaits(so) => PushWaits(st)
  <2> SUFFICES ASSUME NEW n \in 1..Len(c), c[n] = <<"push">>, n > 1 \/ so.at = "idle"
               PROVE  PushWaits(st)
    BY DEF PushWaits, c
  <2>1. n \in 1..Len(d) /\ d[n] = <<"push">>
    BY <1>1
  <2>2. QED
    BY <1>3, <2>1 DEF PushWaits
<1>6. e = <<"push">> => PushWaits(st)
  <2>1. Len(c) + 1 \in 1..Len(d)
    BY <1>1
  <2>2. Len(c) + 1 > 1 \/ so.at = "idle"
    BY <1>1 DEF ChainOK, c
  <2>3. QED
    BY <1>1, <1>3, <2>1, <2>2 DEF PushWaits
<1>7. ChainOK(st)
  <2>1. \A n \in 1..Len(d) : d[n] = <<"start">> => n = 1
    BY <1>1, <1>4 DEF ChainOK, c
  <2>2. st.at # "idle" => d # <<>> /\ Head(d) = Head(c)
    BY <1>1 DEF ChainOK, c
  <2>3. QED
    BY <1>3, <1>5, <1>6, <2>1, <2>2 DEF ChainOK, c
<1>8. OrderOK(st)
  <2>1. In(<<"start">>, st.chain) <=> In(<<"start">>, so.chain)
    BY <1>2, <1>3 DEF c
  <2>2. QED
    BY <2>1 DEF OrderOK
<1>9. QED
  BY <1>2, <1>3, <1>5, <1>6, <1>7, <1>8 DEF c

\* A task taken from the head of a stream's chain.
LEMMA DropTask ==
    ASSUME NEW so \in StreamStates, NEW st, ChainOK(so), so.chain # <<>>,
           Head(so.chain) = <<"push">> => so.at # "idle",
           st.chain = Tail(so.chain), st.queued = so.queued, st.at = "idle"
    PROVE  /\ ChainOK(st) /\ (PushWaits(so) => PushWaits(st))
           /\ ~In(<<"start">>, st.chain)
           /\ \A x : In(x, so.chain) /\ x # Head(so.chain) => In(x, st.chain)
<1> DEFINE c == so.chain
           d == Tail(so.chain)
<1>1. /\ c \in Seq(Tasks) /\ Head(c) = c[1] /\ Len(c) \in Nat \ {0} /\ Len(d) = Len(c) - 1
      /\ \A n \in 1..Len(c) - 1 : d[n] = c[n + 1]
      /\ \A x : In(x, c) /\ x # Head(c) => In(x, d)
  <2>1. c \in Seq(Tasks) /\ c # <<>>
    BY DEF StreamStates
  <2> HIDE DEF c
  <2>2. QED
    BY <2>1, InTail DEF c
<1> HIDE DEF c, d
<1>2. PushWaits(so) => PushWaits(st)
  <2> SUFFICES ASSUME NEW n \in 1..Len(c), c[n] = <<"push">>, n > 1 \/ so.at = "idle"
               PROVE  PushWaits(st)
    BY DEF PushWaits, c
  <2>1. n # 1
    BY <1>1 DEF c
  <2>2. n - 1 \in 1..Len(d) /\ d[n - 1] = <<"push">>
    BY <1>1, <2>1
  <2>3. QED
    BY <2>2 DEF PushWaits, d
<1>3. \A n \in 1..Len(d) : d[n] # <<"start">>
  <2> SUFFICES ASSUME NEW n \in 1..Len(d), d[n] = <<"start">> PROVE FALSE
    OBVIOUS
  <2>1. n + 1 \in 1..Len(c) /\ c[n + 1] = <<"start">>
    BY <1>1
  <2>2. n + 1 = 1
    BY <2>1 DEF ChainOK, c
  <2>3. QED
    BY <2>2
<1>4. ChainOK(st)
  BY <1>2, <1>3 DEF ChainOK, d
<1>5. ~In(<<"start">>, st.chain)
  BY <1>3 DEF In, d
<1>6. QED
  BY <1>1, <1>2, <1>4, <1>5 DEF c, d

\* A message is heard: a new delivery leaves a push to do, a retraction its task.
LEMMA HearStream ==
    ASSUME IInv, NEW s \in Streams, Hear(s)
    PROVE  StreamOK(s)'
<1> DEFINE so == stream[s]
           st == stream'[s]
<1>1. /\ so \in StreamStates /\ st \in StreamStates
      /\ page' = page /\ row' = row /\ hides' = hides
  BY HearFacts DEF IInv, TypeOK, Hear, db
<1>2. so.pc = "open" /\ OpenOK(s)
  <2>1. PICK m \in Messages : mail[s][m] > 0
    BY DEF Hear
  <2>2. NoMail[m] = 0
    BY DEF NoMail
  <2>3. mail[s] # NoMail
    BY <2>1, <2>2
  <2>4. QED
    BY <2>3 DEF IInv, StreamOK, ClosedOK
<1>3. Committed' = Committed /\ \A r \in Rows : Live(r)' <=> Live(r)
  BY <1>1 DEF Committed, Live
<1>4. /\ Wants[s] \subseteq Rows /\ so.wrote \subseteq Rows /\ so.batch \subseteq Rows
  BY <1>1, OverlayConstantsOK DEF StreamStates
<1>5. /\ <<"new">> \in Messages /\ <<"revoke">> \in Messages
      /\ \A r \in Rows : <<"retract", r>> \in Messages
  BY DEF Messages
<1>6. ASSUME st.pc = "open", ChainOK(st), OrderOK(st), PushWaits(so) => PushWaits(st),
             st.batch = so.batch, st.wrote = so.wrote, st.last = so.last, st.top = so.top,
             st.since = so.since, missed'[s] = missed[s],
             NEW m \in Messages, \A x \in Messages \ {m} : mail'[s][x] = mail[s][x],
             \A x : In(x, so.chain) => In(x, st.chain),
             \/ m = <<"new">> /\ PushWaits(st)
             \/ \E r \in Rows : m = <<"retract", r>> /\ In(<<"retract", r>>, st.chain)
      PROVE  StreamOK(s)'
  <2>1. SeenOK(s)'
    BY <1>2, <1>3, <1>6 DEF OpenOK, SeenOK
  <2>2. SkipOK(s)'
    <3>1. PushWaits(so) \/ Coming(s, <<"new">>) => PushWaits(st) \/ Coming(s, <<"new">>)'
      BY <1>5, <1>6, Tags DEF Coming
    <3> HIDE DEF st
    <3>2. QED
      BY <1>2, <1>3, <1>4, <1>6, <3>1 DEF OpenOK, SkipOK, st
  <2>3. TakenOK(s)'
    <3>1. Coming(s, <<"revoke">>) => Coming(s, <<"revoke">>)'
      BY <1>5, <1>6, Tags DEF Coming
    <3>2. \A r \in Rows : Coming(s, <<"retract", r>>) =>
                   Coming(s, <<"retract", r>>)' \/ In(<<"retract", r>>, st.chain)
      <4> TAKE r \in Rows
      <4>1. CASE m = <<"retract", r>>
        BY <1>6, <4>1, Tags
      <4>2. CASE m # <<"retract", r>>
        <5>1. mail'[s][<<"retract", r>>] = mail[s][<<"retract", r>>]
          BY <1>5, <1>6, <4>2
        <5>2. QED
          BY <5>1 DEF Coming
      <4>3. QED
        BY <4>1, <4>2
    <3> HIDE DEF st
    <3>3. QED
      BY <1>1, <1>2, <1>4, <1>6, <3>1, <3>2 DEF OpenOK, TakenOK, st
  <2>4. QED
    BY <1>6, <2>1, <2>2, <2>3 DEF StreamOK, OpenOK
<1>7. CASE stream'[s] = NoStream /\ mail'[s] = NoMail
  BY <1>7, CloseStream
<1>8. CASE /\ missed'[s] = missed[s]
           /\ \A x \in Messages \ {<<"new">>} : mail'[s][x] = mail[s][x]
           /\ so.queued /\ st = so
  BY <1>2, <1>5, <1>6, <1>8 DEF OpenOK, ChainOK
<1>9. ASSUME NEW e \in Tasks, e # <<"start">>, NEW queued \in BOOLEAN,
             queued = so.queued \/ e = <<"push">>, missed'[s] = missed[s],
             st = [so EXCEPT !.queued = queued, !.chain = Append(so.chain, e)],
             NEW m \in Messages, \A x \in Messages \ {m} : mail'[s][x] = mail[s][x],
             \/ m = <<"new">> /\ e = <<"push">>
             \/ \E r \in Rows : m = <<"retract", r>> /\ e = <<"retract", r>>
      PROVE  StreamOK(s)'
  <2>1. /\ st.chain = Append(so.chain, e) /\ st.queued = queued /\ st.pc = so.pc
        /\ st.sub = so.sub /\ st.at = so.at /\ st.batch = so.batch /\ st.wrote = so.wrote
        /\ st.last = so.last /\ st.since = so.since /\ st.top = so.top
    BY <1>1, <1>9 DEF StreamStates
  <2> HIDE DEF st, so
  <2>2. /\ ChainOK(so) /\ OrderOK(so) /\ so \in StreamStates /\ st \in StreamStates
        /\ st.queued = so.queued \/ e = <<"push">>
    BY <1>1, <1>2, <1>9, <2>1 DEF OpenOK, so
  <2>3. /\ ChainOK(st) /\ OrderOK(st) /\ (PushWaits(so) => PushWaits(st))
        /\ e = <<"push">> => PushWaits(st)
        /\ \A x : In(x, st.chain) <=> In(x, so.chain) \/ x = e
    BY <2>1, <2>2, <1>9, AddTask, ZenonT(60)
  <2>4. QED
    BY <1>2, <1>6, <1>9, <2>1, <2>3, ZenonT(60)
<1>10. CASE /\ missed'[s] = missed[s]
            /\ \A x \in Messages \ {<<"new">>} : mail'[s][x] = mail[s][x]
            /\ st = [so EXCEPT !.queued = TRUE, !.chain = Append(so.chain, <<"push">>)]
  <2>1. <<"push">> \in Tasks /\ <<"push">> # <<"start">>
    BY DEF Tasks
  <2>2. QED
    BY <1>5, <1>9, <1>10, <2>1
<1>11. ASSUME NEW r \in Rows, missed'[s] = missed[s],
              \A x \in Messages \ {<<"retract", r>>} : mail'[s][x] = mail[s][x],
              st = [so EXCEPT !.chain = Append(so.chain, <<"retract", r>>)]
       PROVE  StreamOK(s)'
  <2>1. /\ <<"retract", r>> \in Tasks /\ <<"retract", r>> # <<"start">>
        /\ <<"retract", r>> # <<"push">>
    BY DEF Tasks
  <2>2. so.queued \in BOOLEAN /\ so = [so EXCEPT !.queued = so.queued]
    BY <1>1 DEF StreamStates
  <2>3. st = [so EXCEPT !.queued = so.queued, !.chain = Append(so.chain, <<"retract", r>>)]
    BY <1>1, <1>11, <2>2 DEF StreamStates
  <2> HIDE DEF st, so
  <2>4. QED
    BY <1>5, <1>9, <1>11, <2>1, <2>2, <2>3
<1>12. QED
  BY <1>7, <1>8, <1>10, <1>11, HearFacts DEF IInv

-----------------------------------------------------------------------------
(* The tasks of a stream *)

\* Rows are committed in the order of their numbers.
LEMMA RowOrder ==
    ASSUME IInv
    PROVE  \A c \in Committed \cup {0}, r \in Rows \ Committed : c < r
<1> SUFFICES ASSUME NEW c \in Committed \cup {0}, NEW r \in Rows, r \notin Committed
             PROVE  c < r
  OBVIOUS
<1>1. r \in Nat \ {0} /\ next \in Nat /\ (c = 0 \/ c \in Rows) /\ Rows \subseteq Nat
  BY DEF IInv, TypeOK, Rows, Committed
<1>2. next <= r \/ r = next - 1
  BY DEF IInv, RowsOK, Committed
<1>3. c # 0 => ~(next <= c) /\ c # r
  BY DEF IInv, RowsOK, Committed
<1>4. CASE c = 0
  BY <1>1, <1>4
<1>5. CASE c # 0
  <2>1. c \in Nat /\ ~(next <= c) /\ c # r
    BY <1>1, <1>3, <1>5
  <2>2. QED
    BY <1>1, <1>2, <2>1
<1>6. QED
  BY <1>4, <1>5

\* What a push leaves for the next is newer than all it reads.
LEMMA OldestFirst ==
    ASSUME NEW S \in SUBSET Rows, NEW n \in Nat, NEW r \in S, r \notin OldestOf(n, S)
    PROVE  \A q \in OldestOf(n, S) : q < r
<1> SUFFICES ASSUME NEW q \in S, Cardinality({x \in S : x < q}) < n, ~(q < r) PROVE FALSE
  BY DEF OldestOf
<1>1. S \subseteq Nat /\ IsFiniteSet(S)
  <2>1. Rows \subseteq Nat /\ IsFiniteSet(Rows)
    BY OverlayConstantsOK, FS_Interval DEF Rows
  <2>2. QED
    BY <2>1, FS_Subset
<1> DEFINE A == {x \in S : x < r}
           B == {x \in S : x < q}
<1>2. A \subseteq B
  <2> SUFFICES ASSUME NEW x \in S, x < r PROVE x < q
    OBVIOUS
  <2>1. x \in Nat /\ q \in Nat /\ r \in Nat
    BY <1>1
  <2>2. QED
    BY <2>1
<1>3. IsFiniteSet(A) /\ IsFiniteSet(B)
  BY <1>1, FS_Subset
<1>4. ~(Cardinality(A) < n)
  BY DEF OldestOf
<1>5. Cardinality(B) < n
  OBVIOUS
<1> HIDE DEF A, B
<1>6. Cardinality(A) <= Cardinality(B) /\ Cardinality(A) \in Nat /\ Cardinality(B) \in Nat
  BY <1>2, <1>3, FS_Subset, FS_CardinalityType
<1>7. QED
  BY <1>4, <1>5, <1>6

\* A stream in a task, or with one to do, is open; what its task is.
LEMMA TaskFacts ==
    ASSUME IInv, NEW s \in Streams
    PROVE  LET so == stream[s]
           IN  /\ so.chain # <<>> \/ so.at # "idle" => so.pc = "open" /\ OpenOK(s)
               /\ Task(s) \in {<<"start">>, <<"push">>} => so.chain # <<>> /\ Task(s) = so.chain[1]
               /\ so.chain # <<>> => Head(so.chain) = so.chain[1]
               /\ so.pc = "open" /\ In(<<"start">>, so.chain) => so.chain[1] = <<"start">>
               /\ so.chain # <<>> /\ so.chain[1] = <<"start">> => In(<<"start">>, so.chain)
               /\ so \in StreamStates /\ so.last \in Nat /\ so.top \in Nat /\ so.since \in Nat
               /\ so.wrote \subseteq Rows /\ so.batch \subseteq Rows
               /\ Rows \subseteq Nat \ {0} /\ Wants[s] \subseteq Rows /\ MaxRows \in Nat
<1> DEFINE so == stream[s]
<1>1. so \in StreamStates /\ StreamOK(s)
  BY DEF IInv, TypeOK
<1>2. /\ so.chain \in Seq(Tasks) /\ so.last \in Nat /\ so.top \in Nat /\ so.since \in Nat
      /\ so.wrote \subseteq Rows /\ so.batch \subseteq Rows
  BY <1>1 DEF StreamStates
<1>3. so.chain # <<>> => /\ Head(so.chain) = so.chain[1] /\ Len(so.chain) \in Nat \ {0}
                         /\ 1 \in 1..Len(so.chain)
  BY <1>2, InTail
<1>4. so.chain # <<>> \/ so.at # "idle" => so.pc = "open" /\ OpenOK(s)
  BY <1>1 DEF StreamOK, ClosedOK
<1>5. Task(s) \in {<<"start">>, <<"push">>} => so.chain # <<>> /\ Task(s) = so.chain[1]
  BY <1>3 DEF Task
<1>6. so.pc = "open" /\ In(<<"start">>, so.chain) => so.chain[1] = <<"start">>
  BY <1>1 DEF StreamOK, OpenOK, ChainOK, In
<1>7. so.chain # <<>> /\ so.chain[1] = <<"start">> => In(<<"start">>, so.chain)
  BY <1>3 DEF In
<1>8. Rows \subseteq Nat \ {0} /\ Wants[s] \subseteq Rows /\ MaxRows \in Nat
  BY OverlayConstantsOK DEF Rows
<1>9. QED
  BY <1>1, <1>2, <1>3, <1>4, <1>5, <1>6, <1>7, <1>8

\* A start looks at the newest row.
LEMMA StartStream ==
    ASSUME IInv, NEW s \in Streams, Start(s)
    PROVE  StreamOK(s)'
<1> DEFINE so == stream[s]
           st == stream'[s]
<1>1. /\ so.pc = "open" /\ OpenOK(s) /\ so.chain # <<>> /\ so.chain[1] = <<"start">>
      /\ Head(so.chain) = <<"start">> /\ In(<<"start">>, so.chain) /\ so \in StreamStates
      /\ so.at = "idle" /\ so.sub # "asked" /\ so.since = MaxRows + 1 /\ Wants[s] \subseteq Rows
      /\ MaxRows \in Nat /\ Rows \subseteq Nat \ {0}
  <2>1. Task(s) = <<"start">> /\ so.at = "idle" /\ so.sub # "asked"
    BY DEF Start, StartSees
  <2>2. /\ so.pc = "open" /\ OpenOK(s) /\ so.chain # <<>> /\ so.chain[1] = <<"start">>
        /\ Head(so.chain) = <<"start">> /\ In(<<"start">>, so.chain)
    BY <2>1, TaskFacts
  <2>3. so.since = MaxRows + 1
    BY <2>1, <2>2 DEF OpenOK, OrderOK
  <2>4. QED
    BY <2>1, <2>2, <2>3, TaskFacts
<1>2. st = [so EXCEPT !.top = Newest, !.at = "fetch"]
  BY WriteFacts DEF IInv
<1>3. /\ st.pc = so.pc /\ st.chain = so.chain /\ st.queued = so.queued /\ st.sub = so.sub
      /\ st.batch = so.batch /\ st.wrote = so.wrote /\ st.last = so.last /\ st.since = so.since
      /\ st.top = Newest /\ st.at = "fetch"
  <2>1. so \in StreamStates
    BY <1>1
  <2> HIDE DEF so, st
  <2>2. QED
    BY <1>2, <2>1 DEF StreamStates
<1>4. /\ mail' = mail /\ missed' = missed /\ page' = page /\ row' = row /\ hides' = hides
  BY DEF Start, db
<1>5. Committed' = Committed /\ \A r \in Rows : Live(r)' <=> Live(r)
  BY <1>4 DEF Committed, Live
<1>6. Newest \in Committed \cup {0} /\ Newest <= MaxRows + 1
  <2>1. Newest \in Committed \cup {0} /\ Newest <= MaxRows /\ Committed \subseteq Rows
    BY RowSets DEF IInv
  <2>2. Rows \subseteq Nat /\ MaxRows \in Nat
    BY OverlayConstantsOK DEF Rows
  <2>3. Newest \in Nat
    BY <2>1, <2>2
  <2>4. QED
    BY <2>1, <2>2, <2>3
<1> HIDE DEF st, so
<1>7. PushWaits(so) => PushWaits(st)
  BY <1>1, <1>3, Tags DEF PushWaits
<1>8. ChainOK(st) /\ OrderOK(st)
  BY <1>1, <1>3, <1>7 DEF OpenOK, ChainOK, OrderOK, so
<1>9. SeenOK(s)'
  BY <1>1, <1>3, <1>5, <1>6 DEF OpenOK, SeenOK, so, st
<1>10. SkipOK(s)' /\ TakenOK(s)'
  BY <1>1, <1>3, <1>4, <1>5, <1>7 DEF OpenOK, SkipOK, TakenOK, Coming, so, st
<1>11. QED
  BY <1>1, <1>3, <1>8, <1>9, <1>10 DEF StreamOK, OpenOK, st

\* A start reads what is pending, or what came after the last id.
LEMMA FetchStream ==
    ASSUME IInv, NEW s \in Streams, Fetch(s)
    PROVE  StreamOK(s)'
<1> DEFINE so == stream[s]
           st == stream'[s]
<1>1. /\ so.pc = "open" /\ OpenOK(s) /\ so.chain # <<>> /\ so.chain[1] = <<"start">>
      /\ Head(so.chain) = <<"start">> /\ In(<<"start">>, so.chain)
      /\ so.at = "fetch" /\ so.sub # "asked" /\ so.wrote = {} /\ so.queued \in BOOLEAN
  <2>1. Task(s) = <<"start">> /\ so.at = "fetch"
    BY DEF Fetch
  <2>2. /\ so.pc = "open" /\ OpenOK(s) /\ so.chain # <<>> /\ so.chain[1] = <<"start">>
        /\ Head(so.chain) = <<"start">> /\ In(<<"start">>, so.chain) /\ so \in StreamStates
    BY <2>1, TaskFacts
  <2>3. QED
    BY <2>1, <2>2 DEF OpenOK, OrderOK, StreamStates
<1>2. /\ so.last \in Nat /\ so.top \in Nat /\ Wants[s] \subseteq Rows /\ Rows \subseteq Nat \ {0}
  BY TaskFacts
<1>3. PICK got \in SUBSET Sendable, last \in Nat :
         /\ st = Reading(s, got, last, Newest, so.queued)
         /\ \A r \in got : r <= last
         /\ last \in Committed \cup {so.last, so.top}
  BY FetchFacts DEF IInv
<1>4. /\ Sendable \subseteq Committed /\ Committed \subseteq Rows
      /\ Newest \in Committed \cup {0} /\ \A r \in Committed : r <= Newest
  BY RowSets DEF IInv
<1>5. /\ st.pc = "open" /\ st.sub # "asked" /\ st.at \in {"write", "deliver"} /\ st.chain = so.chain
      /\ st.queued = so.queued /\ st.last = last /\ st.top = so.top
      /\ st.since = Newest /\ st.batch = got \cap Wants[s] /\ st.wrote = {}
  <2>1. TypeOK /\ st = Reading(s, got, last, Newest, so.queued)
    BY <1>3 DEF IInv
  <2>2. /\ st.pc = so.pc /\ st.sub = so.sub
        /\ st.at \in {"write", "deliver"} /\ st.chain = so.chain
        /\ st.queued = so.queued /\ st.last = last /\ st.top = so.top
        /\ st.since = Newest /\ st.batch = got \cap Wants[s] /\ st.wrote = so.wrote
    BY <2>1, ReadingFields
  <2> HIDE DEF st, so
  <2>3. QED
    BY <1>1, <2>2
<1>6. /\ mail' = mail /\ page' = page /\ row' = row /\ hides' = hides
  BY DEF Fetch, db
<1>7. Committed' = Committed /\ \A r \in Rows : Live(r)' <=> Live(r)
  BY <1>6 DEF Committed, Live
<1> HIDE DEF st, so
<1>8. PushWaits(so) => PushWaits(st)
  BY <1>1, <1>5 DEF PushWaits
<1>9. ChainOK(st)
  BY <1>1, <1>5, <1>8 DEF OpenOK, ChainOK, so
<1>10. OrderOK(st)
  BY <1>1, <1>2, <1>3, <1>5 DEF OrderOK
<1>11. SeenOK(s)'
  <2>1. so.top \in Committed \cup {0} /\ \A r \in Rows \ Committed : so.last < r
    BY <1>1 DEF OpenOK, SeenOK, so
  <2>2. so.top <= Newest
    BY <1>2, <1>4, <2>1
  <2>3. \A r \in Rows \ Committed : last < r
    BY <1>3, <2>1, RowOrder
  <2>4. QED
    BY <1>5, <1>7, <2>1, <2>2, <2>3 DEF SeenOK, st
<1>12. SkipOK(s)'
  <2>1. \A r \in Committed : ~(Newest < r)
    BY <1>2, <1>4
  <2>2. QED
    BY <1>5, <1>7, <2>1 DEF SkipOK, Live, st
<1>13. TakenOK(s)'
  <2>1. \A r \in got : ~row[r].hidden
    BY DEF Sendable
  <2>2. QED
    BY <1>5, <1>6, <2>1 DEF TakenOK, st
<1>14. QED
  BY <1>5, <1>9, <1>10, <1>11, <1>12, <1>13 DEF StreamOK, OpenOK, st

\* A push reads what is newer than everything read before.
LEMMA PushStream ==
    ASSUME IInv, NEW s \in Streams, Push(s)
    PROVE  StreamOK(s)'
<1> DEFINE so == stream[s]
           st == stream'[s]
<1>1. /\ so.pc = "open" /\ OpenOK(s) /\ so.chain # <<>> /\ so.chain[1] = <<"push">>
      /\ Head(so.chain) = <<"push">> /\ ~In(<<"start">>, so.chain)
      /\ so.at = "idle" /\ so.sub # "asked" /\ so.batch = {}
  <2>1. Task(s) = <<"push">> /\ so.at = "idle"
    BY DEF Push
  <2>2. /\ so.pc = "open" /\ OpenOK(s) /\ so.chain # <<>> /\ so.chain[1] = <<"push">>
        /\ Head(so.chain) = <<"push">>
    BY <2>1, TaskFacts
  <2>3. ~In(<<"start">>, so.chain)
    BY <2>2, Tags, TaskFacts
  <2>4. QED
    BY <2>1, <2>2, <2>3 DEF OpenOK, OrderOK
<1>2. /\ so.last \in Nat /\ so.since \in Nat /\ Wants[s] \subseteq Rows /\ Rows \subseteq Nat \ {0}
      /\ so.wrote \subseteq Rows
  BY TaskFacts
<1>3. PICK got \in SUBSET Rows, last \in Nat :
         /\ got = OldestOf(PushLimit, Unseen(s))
         /\ st = Reading(s, got, last, so.since, NoStream.queued)
         /\ got \subseteq Unseen(s) /\ \A r \in got : r <= last
         /\ last \in got \cup {so.last}
         /\ missed'[s].late = Unseen(s) \ got /\ missed'[s].unaware = missed[s].unaware
  BY PushFacts DEF IInv
<1>4. Sendable \subseteq Committed /\ Committed \subseteq Rows
  BY RowSets DEF IInv
<1>5. missed'[s].late = Unseen(s) \ got /\ missed'[s].unaware = missed[s].unaware
  BY <1>3
<1>6. got \subseteq Sendable /\ \A r \in got : so.last < r
  BY <1>2, <1>3 DEF Unseen
<1>7. /\ st.pc = "open" /\ st.sub # "asked" /\ st.at \in {"write", "deliver"} /\ st.chain = so.chain
      /\ ~st.queued /\ st.last = last /\ st.top = so.top
      /\ st.since = so.since /\ st.batch = got \cap Wants[s] /\ st.wrote = so.wrote
  <2>1. TypeOK /\ st = Reading(s, got, last, so.since, NoStream.queued)
    BY <1>3 DEF IInv
  <2>2. /\ st.pc = so.pc /\ st.sub = so.sub
        /\ st.at \in {"write", "deliver"} /\ st.chain = so.chain
        /\ st.queued = NoStream.queued /\ st.last = last /\ st.top = so.top
        /\ st.since = so.since /\ st.batch = got \cap Wants[s] /\ st.wrote = so.wrote
    BY <2>1, ReadingFields
  <2>3. ~NoStream.queued
    BY DEF NoStream
  <2> HIDE DEF st, so
  <2>4. QED
    BY <1>1, <2>2, <2>3
<1>8. /\ mail' = mail /\ page' = page /\ row' = row /\ hides' = hides
  BY DEF Push, db
<1>9. Committed' = Committed /\ \A r \in Rows : Live(r)' <=> Live(r)
  BY <1>8 DEF Committed, Live
<1> HIDE DEF st, so
<1>10. ChainOK(st)
  BY <1>1, <1>7 DEF OpenOK, ChainOK, so
<1>11. so.last <= last
  BY <1>2, <1>3, <1>6
<1>12. OrderOK(st)
  <2>1. \A q \in so.wrote : q <= so.last
    BY <1>1 DEF OpenOK, OrderOK, so
  <2>2. ASSUME NEW q \in so.wrote PROVE q <= last
    <3>1. q \in Nat /\ so.last \in Nat /\ q <= so.last
      BY <1>2, <2>1
    <3>2. QED
      BY <1>11, <3>1
  <2>3. ASSUME NEW r \in got, NEW q \in so.wrote PROVE q < r
    <3>1. q \in Nat /\ so.last \in Nat /\ q <= so.last /\ r \in Nat /\ so.last < r
      BY <1>2, <1>4, <1>6, <2>1
    <3>2. QED
      BY <3>1
  <2>4. QED
    BY <1>1, <1>3, <1>7, <2>2, <2>3 DEF OrderOK
<1>13. SeenOK(s)'
  <2>1. /\ so.top \in Committed \cup {0} /\ so.top <= so.since
        /\ \A r \in Rows \ Committed : so.last < r
    BY <1>1 DEF OpenOK, SeenOK, so
  <2>2. \A r \in Rows \ Committed : last < r
    BY <1>3, <1>4, <1>6, <2>1, RowOrder
  <2>3. QED
    BY <1>7, <1>9, <2>1, <2>2 DEF SeenOK, st
<1>14. SkipOK(s)'
  <2> SUFFICES ASSUME NEW r \in Wants[s], Live(r), so.since < r
               PROVE  \/ r \in so.wrote \cup (got \cap Wants[s])
                      \/ last < r /\ r \in missed'[s].late
    BY <1>2, <1>7, <1>9 DEF SkipOK, st
  <2>1. r \in so.wrote \/ so.last < r
    BY <1>1 DEF OpenOK, SkipOK, so
  <2>2. r \in Sendable
    BY <1>2 DEF Live, Sendable, IInv, RowsOK, TypeOK
  <2>3. so.last < r => r \in Unseen(s)
    BY <1>2, <2>2 DEF Unseen, so
  <2>4. ASSUME so.last < r, r \notin got PROVE last < r
    <3>1. \A q \in got : q < r
      <4>1. Unseen(s) \in SUBSET Rows /\ PushLimit \in Nat /\ r \in Unseen(s)
        BY <1>4, <2>3, <2>4, OverlayConstantsOK DEF Unseen
      <4>2. r \notin OldestOf(PushLimit, Unseen(s))
        BY <1>3, <2>4
      <4>3. \A q \in OldestOf(PushLimit, Unseen(s)) : q < r
        BY <4>1, <4>2, OldestFirst
      <4>4. QED
        BY <1>3, <4>3
    <3>2. QED
      BY <1>3, <2>4, <3>1
  <2>5. QED
    BY <1>5, <2>1, <2>3, <2>4
<1>15. TakenOK(s)'
  <2>1. \A r \in got : ~row[r].hidden
    BY <1>6 DEF Sendable
  <2>2. QED
    BY <1>1, <1>5, <1>7, <1>8, <2>1 DEF OpenOK, TakenOK, Coming, so, st
<1>16. QED
  BY <1>7, <1>10, <1>12, <1>13, <1>14, <1>15 DEF StreamOK, OpenOK, st

\* What was sent is recorded just before it is written.
LEMMA RecordStream ==
    ASSUME IInv, NEW s \in Streams, RecordSends(s)
    PROVE  StreamOK(s)'
<1> DEFINE so == stream[s]
           st == stream'[s]
<1>1. so.at = "deliver" /\ mail' = mail /\ missed' = missed /\ page' = page
  BY DEF RecordSends
<1>2. /\ so.pc = "open" /\ OpenOK(s) /\ so \in StreamStates /\ so.sub # "asked"
      /\ so.wrote \subseteq Rows /\ so.batch \subseteq Rows /\ Wants[s] \subseteq Rows
  <2>1. so.pc = "open" /\ OpenOK(s)
    BY <1>1, TaskFacts
  <2>2. so.sub # "asked"
    BY <1>1, <2>1 DEF OpenOK, OrderOK
  <2>3. QED
    BY <2>1, <2>2, TaskFacts
<1>3. st = [so EXCEPT !.at = "write"]
  BY WriteFacts DEF IInv
<1>4. /\ st.pc = so.pc /\ st.chain = so.chain /\ st.queued = so.queued /\ st.sub = so.sub
      /\ st.batch = so.batch /\ st.wrote = so.wrote /\ st.last = so.last /\ st.since = so.since
      /\ st.top = so.top /\ st.at = "write"
  <2>1. so \in StreamStates
    BY <1>2
  <2> HIDE DEF so, st
  <2>2. QED
    BY <1>3, <2>1 DEF StreamStates
<1>5. Tame
  BY TameFacts
<1> HIDE DEF so, st
<1>6. PushWaits(so) => PushWaits(st)
  BY <1>1, <1>4 DEF PushWaits
<1>7. ChainOK(st) /\ OrderOK(st)
  BY <1>1, <1>2, <1>4, <1>6 DEF OpenOK, ChainOK, OrderOK, so
<1>8. SeenOK(s)'
  BY <1>2, <1>4, <1>5 DEF OpenOK, SeenOK, Tame, so, st
<1>9. SkipOK(s)'
  BY <1>1, <1>2, <1>4, <1>5, <1>6 DEF OpenOK, SkipOK, Tame, Coming, so, st
<1>10. TakenOK(s)'
  BY <1>1, <1>2, <1>4, <1>5 DEF OpenOK, TakenOK, Tame, Coming, so, st
<1>11. QED
  BY <1>2, <1>4, <1>7, <1>8, <1>9, <1>10 DEF StreamOK, OpenOK, st

\* What was read is written, and what was passed counts as read.
LEMMA WriteStream ==
    ASSUME IInv, NEW s \in Streams, Write(s)
    PROVE  StreamOK(s)'
<1> DEFINE so == stream[s]
           st == stream'[s]
<1>1. /\ so.at = "write" /\ mail' = mail /\ missed' = missed /\ row' = row
      /\ hides' = hides
  BY DEF Write, db
<1>2. /\ so.pc = "open" /\ OpenOK(s) /\ so \in StreamStates /\ so.sub # "asked" /\ so.chain # <<>>
      /\ Head(so.chain) = so.chain[1] /\ Head(so.chain) \in {<<"start">>, <<"push">>}
  <2>1. so.pc = "open" /\ OpenOK(s)
    BY <1>1, TaskFacts
  <2>2. so.sub # "asked" /\ so.chain # <<>> /\ Head(so.chain) \in {<<"start">>, <<"push">>}
    BY <1>1, <2>1 DEF OpenOK, OrderOK, ChainOK
  <2>3. QED
    BY <2>1, <2>2, TaskFacts
<1>3. /\ so.last \in Nat /\ so.top \in Nat /\ so.since \in Nat /\ so.wrote \subseteq Rows
      /\ so.batch \subseteq Rows /\ Wants[s] \subseteq Rows /\ Rows \subseteq Nat \ {0}
  BY TaskFacts
<1>4. /\ st = [so EXCEPT !.at = "idle", !.chain = Tail(so.chain), !.batch = {}, !.fresh = {},
                         !.wrote = so.wrote \cup so.batch, !.last = Passed(s)]
      /\ page'[s].shown = page[s].shown \cup (so.batch \ page[s].retracted)
      /\ page'[s].retracted = page[s].retracted
  BY <1>2, WriteFacts DEF IInv
<1>5. /\ st.pc = so.pc /\ st.chain = Tail(so.chain) /\ st.queued = so.queued
      /\ st.sub = so.sub /\ st.batch = {} /\ st.wrote = so.wrote \cup so.batch
      /\ st.last = Passed(s) /\ st.since = so.since /\ st.top = so.top /\ st.at = "idle"
  <2>1. so \in StreamStates
    BY <1>2
  <2> HIDE DEF so, st
  <2>2. QED
    BY <1>4, <2>1 DEF StreamStates
<1>6. Passed(s) \in {so.last, so.top} /\ so.last <= Passed(s) /\ Passed(s) \in Nat
  BY <1>3, WriteFacts DEF IInv
<1>7. Committed' = Committed /\ \A r \in Rows : Live(r)' <=> Live(r)
  BY <1>1 DEF Committed, Live
<1> HIDE DEF st, so
<1>8. /\ ChainOK(st) /\ (PushWaits(so) => PushWaits(st)) /\ ~In(<<"start">>, st.chain)
      /\ \A x : In(x, so.chain) /\ x # Head(so.chain) => In(x, st.chain)
  <2>1. ChainOK(so) /\ so.at # "idle"
    BY <1>1, <1>2 DEF OpenOK, so
  <2>2. QED
    BY <1>2, <1>5, <2>1, DropTask
<1>9. OrderOK(st)
  <2>1. ASSUME NEW q \in so.wrote \cup so.batch PROVE q <= Passed(s)
    <3>1. q <= so.last /\ q \in Nat
      BY <1>2, <1>3 DEF OpenOK, OrderOK, so
    <3>2. QED
      BY <1>3, <1>6, <3>1
  <2>2. QED
    BY <1>2, <1>5, <1>8, <2>1 DEF OrderOK
<1>10. SeenOK(s)'
  <2>1. /\ so.top \in Committed \cup {0} /\ so.top <= so.since
        /\ \A r \in Rows \ Committed : so.last < r
    BY <1>2 DEF OpenOK, SeenOK, so
  <2>2. \A r \in Rows \ Committed : Passed(s) < r
    BY <1>6, <2>1, RowOrder
  <2>3. QED
    BY <1>5, <1>7, <2>1, <2>2 DEF SeenOK, st
<1>11. SkipOK(s)'
  <2> SUFFICES ASSUME NEW r \in Wants[s], Live(r), so.since < r
               PROVE  \/ r \in so.wrote \cup so.batch
                      \/ /\ Passed(s) < r
                         /\ r \in missed[s].late \/ PushWaits(st) \/ Coming(s, <<"new">>)
    BY <1>1, <1>3, <1>5, <1>7 DEF SkipOK, Coming, st
  <2>1. \/ r \in so.wrote \cup so.batch
        \/ /\ so.last < r
           /\ r \in missed[s].late \/ PushWaits(so) \/ Coming(s, <<"new">>)
    BY <1>2 DEF OpenOK, SkipOK, so
  <2>2. so.top < r
    <3>1. so.top <= so.since /\ r \in Nat
      BY <1>2, <1>3 DEF OpenOK, SeenOK, so
    <3>2. QED
      BY <1>3, <3>1
  <2>3. QED
    BY <1>6, <1>8, <2>1, <2>2
<1>12. TakenOK(s)'
  <2> SUFFICES ASSUME NEW r \in so.wrote \cup so.batch, row[r].hidden,
                      r \in page[s].shown \cup (so.batch \ page[s].retracted)
               PROVE  \/ Coming(s, <<"retract", r>>) \/ Coming(s, <<"revoke">>)
                      \/ In(<<"retract", r>>, st.chain) \/ r \in missed[s].unaware
    BY <1>1, <1>4, <1>5 DEF TakenOK, Coming, st, so
  <2>1. \/ Coming(s, <<"retract", r>>) \/ Coming(s, <<"revoke">>)
        \/ In(<<"retract", r>>, so.chain) \/ r \in missed[s].unaware
    BY <1>2 DEF OpenOK, TakenOK, so
  <2>2. <<"retract", r>> # Head(so.chain)
    BY <1>2, Tags
  <2>3. QED
    BY <1>8, <2>1, <2>2
<1>13. QED
  BY <1>2, <1>5, <1>8, <1>9, <1>10, <1>11, <1>12 DEF StreamOK, OpenOK, st

\* A retraction is written, and the page drops the alert.
LEMMA WriteRetractStream ==
    ASSUME IInv, NEW s \in Streams, WriteRetract(s)
    PROVE  StreamOK(s)'
<1> DEFINE so == stream[s]
           st == stream'[s]
<1>1. /\ so.at = "idle" /\ so.chain # <<>> /\ mail' = mail /\ missed' = missed /\ row' = row
      /\ hides' = hides
  BY DEF WriteRetract, RetractTurn, db
<1>2. PICK r \in Rows :
         /\ Head(so.chain) = <<"retract", r>>
         /\ st = [so EXCEPT !.chain = Tail(so.chain)]
         /\ page'[s].shown = page[s].shown \ {r}
         /\ page'[s].retracted = page[s].retracted \cup {r}
  BY WriteFacts DEF IInv
<1>3. /\ so.pc = "open" /\ OpenOK(s) /\ so \in StreamStates /\ so.sub # "asked" /\ so.batch = {}
      /\ ~In(<<"start">>, so.chain)
  <2>1. so.pc = "open" /\ OpenOK(s) /\ Head(so.chain) = so.chain[1]
    BY <1>1, TaskFacts
  <2>2. ~In(<<"start">>, so.chain)
    BY <1>2, <2>1, Tags, TaskFacts
  <2>3. so.sub # "asked" /\ so.batch = {}
    BY <1>1, <2>1, <2>2 DEF OpenOK, OrderOK
  <2>4. QED
    BY <2>1, <2>2, <2>3, TaskFacts
<1>4. Wants[s] \subseteq Rows
  BY TaskFacts
<1>5. /\ st.pc = so.pc /\ st.chain = Tail(so.chain) /\ st.queued = so.queued
      /\ st.sub = so.sub /\ st.batch = so.batch /\ st.wrote = so.wrote
      /\ st.last = so.last /\ st.since = so.since /\ st.top = so.top /\ st.at = so.at
  <2>1. so \in StreamStates
    BY <1>3
  <2> HIDE DEF so, st
  <2>2. QED
    BY <1>2, <2>1 DEF StreamStates
<1>6. Committed' = Committed /\ \A q \in Rows : Live(q)' <=> Live(q)
  BY <1>1 DEF Committed, Live
<1> HIDE DEF st, so
<1>7. /\ ChainOK(st) /\ (PushWaits(so) => PushWaits(st)) /\ ~In(<<"start">>, st.chain)
      /\ \A x : In(x, so.chain) /\ x # Head(so.chain) => In(x, st.chain)
  <2>1. ChainOK(so) /\ Head(so.chain) # <<"push">> /\ st.at = "idle"
    BY <1>1, <1>2, <1>3, <1>5, Tags DEF OpenOK, so
  <2>2. QED
    BY <1>1, <1>3, <1>5, <2>1, DropTask
<1>8. OrderOK(st)
  BY <1>3, <1>5, <1>7 DEF OpenOK, OrderOK, so
<1>9. SeenOK(s)'
  BY <1>3, <1>5, <1>6 DEF OpenOK, SeenOK, so, st
<1>10. SkipOK(s)'
  BY <1>1, <1>3, <1>4, <1>5, <1>6, <1>7 DEF OpenOK, SkipOK, Coming, so, st
<1>11. TakenOK(s)'
  <2> SUFFICES ASSUME NEW q \in so.wrote, row[q].hidden, q \in page[s].shown, q # r
               PROVE  \/ Coming(s, <<"retract", q>>) \/ Coming(s, <<"revoke">>)
                      \/ In(<<"retract", q>>, st.chain) \/ q \in missed[s].unaware
    BY <1>1, <1>2, <1>3, <1>5 DEF TakenOK, Coming, st
  <2>1. \/ Coming(s, <<"retract", q>>) \/ Coming(s, <<"revoke">>)
        \/ In(<<"retract", q>>, so.chain) \/ q \in missed[s].unaware
    BY <1>3 DEF OpenOK, TakenOK, so
  <2>2. <<"retract", q>> # Head(so.chain)
    BY <1>2, Tags
  <2>3. QED
    BY <1>7, <2>1, <2>2
<1>12. QED
  BY <1>3, <1>5, <1>7, <1>8, <1>9, <1>10, <1>11 DEF StreamOK, OpenOK, st

-----------------------------------------------------------------------------
(* Steps *)

Taken == {s \in Streams : stream[s].pc # "none"}

\* The place of one stream is taken or given back, or none is.
LEMMA PlacesMove ==
    ASSUME TypeOK, NEW s \in Streams,
           \A t \in Streams \ {s} : stream'[t].pc = "none" <=> stream[t].pc = "none"
    PROVE  /\ Cardinality(Taken) \in Nat /\ Cardinality(Taken') \in Nat
           /\ Places = Cardinality(Taken) + slots /\ Places' = Cardinality(Taken') + slots'
           /\ stream'[s].pc # "none" /\ stream[s].pc = "none" =>
                 Cardinality(Taken') = Cardinality(Taken) + 1
           /\ stream'[s].pc = "none" /\ stream[s].pc # "none" =>
                 Cardinality(Taken') = Cardinality(Taken) - 1
           /\ (stream'[s].pc = "none" <=> stream[s].pc = "none") =>
                 Cardinality(Taken') = Cardinality(Taken)
<1>1. IsFiniteSet(Taken) /\ IsFiniteSet(Taken')
  <2>1. IsFiniteSet(Streams) /\ Taken \subseteq Streams /\ Taken' \subseteq Streams
    BY OverlayConstantsOK DEF Taken
  <2>2. QED
    BY <2>1, FS_Subset
<1>2. Cardinality(Taken) \in Nat /\ Cardinality(Taken') \in Nat
  BY <1>1, FS_CardinalityType
<1>3. Places = Cardinality(Taken) + slots /\ Places' = Cardinality(Taken') + slots'
  BY DEF Places, Taken
<1>4. ASSUME stream'[s].pc # "none", stream[s].pc = "none"
      PROVE  Cardinality(Taken') = Cardinality(Taken) + 1
  <2>1. Taken' = Taken \cup {s} /\ s \notin Taken
    BY <1>4 DEF Taken
  <2>2. QED
    BY <1>1, <2>1, FS_AddElement
<1>5. ASSUME stream'[s].pc = "none", stream[s].pc # "none"
      PROVE  Cardinality(Taken') = Cardinality(Taken) - 1
  <2>1. Taken' = Taken \ {s} /\ s \in Taken
    BY <1>5 DEF Taken
  <2>2. QED
    BY <1>1, <2>1, FS_RemoveElement
<1>6. ASSUME stream'[s].pc = "none" <=> stream[s].pc = "none"
      PROVE  Cardinality(Taken') = Cardinality(Taken)
  <2>1. Taken' = Taken
    BY <1>6 DEF Taken
  <2>2. QED
    BY <2>1
<1>7. QED
  BY <1>2, <1>3, <1>4, <1>5, <1>6

\* A step of deliveries, of the token or of nothing leaves the streams where they are.
LEMMA RowSteps ==
    ASSUME IInv,
           \/ Insert \/ Lapse \/ UNCHANGED vars
           \/ \E r \in Rows : Commit(r) \/ Retract(r) \/ Unretract(r) \/ WindowEnds(r) \/ SweepFailed(r)
           \/ Revoke
    PROVE  IInv'
<1>1. TypeOK /\ Places <= MaxStreams
  BY DEF IInv
<1>2. ASSUME stream' = stream, RowTypes, next' \in 1..MaxRows + 1, RowsOK',
             MailTypes, page' = page, slots' \in Nat, slots' <= slots,
             revoked' \in BOOLEAN, drops' = drops, hides' \in [Rows -> Nat], failures' \in Nat,
             \A s \in Streams : StreamOK(s)'
      PROVE  IInv'
  <2>1. TypeOK'
    BY <1>1, <1>2 DEF TypeOK, RowTypes, MailTypes
  <2>2. Places' <= MaxStreams
    <3>1. /\ Places  = Cardinality({s \in Streams : stream[s].pc # "none"}) + slots
          /\ Places' = Cardinality({s \in Streams : stream[s].pc # "none"}) + slots'
      BY <1>2 DEF Places
    <3>2. Cardinality({s \in Streams : stream[s].pc # "none"}) \in Nat
      <4>1. IsFiniteSet({s \in Streams : stream[s].pc # "none"})
        BY OverlayConstantsOK, FS_Subset
      <4>2. QED
        BY <4>1, FS_CardinalityType
    <3>3. slots \in Nat /\ MaxStreams \in Nat
      BY <1>1, OverlayConstantsOK DEF TypeOK
    <3>4. QED
      BY <1>1, <1>2, <3>1, <3>2, <3>3
  <2>3. QED
    BY <1>2, <2>1, <2>2 DEF IInv
<1>3. /\ next \in 1..MaxRows + 1 /\ slots \in Nat /\ revoked \in BOOLEAN
      /\ hides \in [Rows -> Nat] /\ failures \in Nat
      /\ mail' = mail /\ missed' = missed => MailTypes
  BY <1>1 DEF TypeOK, MailTypes
<1>4. ASSUME Tame, RowTypes, next' \in 1..MaxRows + 1, RowsOK', stream' = stream, mail' = mail,
             missed' = missed, page' = page, slots' \in Nat, slots' <= slots, revoked' = revoked,
             drops' = drops, hides' = hides, failures' = failures
      PROVE  IInv'
  <2>1. \A s \in Streams : StreamOK(s)'
    BY <1>4, SameStream
  <2>2. QED
    BY <1>2, <1>3, <1>4, <2>1
<1>5. CASE Insert
  <2>1. /\ stream' = stream /\ mail' = mail /\ missed' = missed /\ page' = page /\ failures' = failures
        /\ slots' = slots
        /\ revoked' = revoked /\ drops' = drops /\ hides' = hides
    BY <1>5 DEF Insert
  <2>2. RowTypes /\ next' \in 1..MaxRows + 1 /\ RowsOK' /\ Tame
    BY <1>5, InsertFacts
  <2>3. QED
    BY <1>3, <1>4, <2>1, <2>2
<1>6. CASE Lapse
  <2>1. /\ stream' = stream /\ mail' = mail /\ missed' = missed /\ page' = page /\ failures' = failures
        /\ slots' = slots - 1 /\ slots > 0
        /\ revoked' = revoked /\ drops' = drops /\ hides' = hides
        /\ UNCHANGED <<row, next, events, hides>>
    BY <1>6 DEF Lapse, db
  <2>2. RowTypes /\ next' = next /\ RowsOK' /\ Tame
    BY <2>1, TameFacts
  <2>3. slots' \in Nat /\ slots' <= slots
    BY <1>3, <2>1
  <2>4. QED
    BY <1>3, <1>4, <2>1, <2>2, <2>3
<1>7. CASE UNCHANGED vars
  <2>1. /\ stream' = stream /\ mail' = mail /\ missed' = missed /\ page' = page /\ failures' = failures
        /\ slots' = slots
        /\ revoked' = revoked /\ drops' = drops /\ hides' = hides
        /\ UNCHANGED <<row, next, events, hides>>
    BY <1>7 DEF vars
  <2>2. RowTypes /\ next' = next /\ RowsOK' /\ Tame
    BY <2>1, TameFacts
  <2>3. QED
    BY <1>3, <1>4, <2>1, <2>2
<1>8. ASSUME NEW r \in Rows, Unretract(r) \/ WindowEnds(r) \/ SweepFailed(r)
      PROVE  IInv'
  <2>1. /\ stream' = stream /\ mail' = mail /\ missed' = missed /\ page' = page /\ failures' = failures
        /\ slots' = slots
        /\ revoked' = revoked /\ drops' = drops /\ hides' = hides
    BY <1>8 DEF Unretract, WindowEnds, SweepFailed
  <2>2. RowTypes /\ next' = next /\ RowsOK' /\ Tame
    BY <1>8, TameFacts
  <2>3. QED
    BY <1>3, <1>4, <2>1, <2>2
<1>9. ASSUME NEW r \in Rows, Commit(r)
      PROVE  IInv'
  <2>1. /\ stream' = stream /\ page' = page /\ slots' = slots
        /\ revoked' = revoked /\ drops' = drops /\ hides' = hides
    BY <1>9 DEF Commit
  <2>2. RowTypes /\ next' = next /\ RowsOK'
    BY <1>9, CommitFacts
  <2>3. MailTypes /\ failures' \in Nat /\ \A s \in Streams : StreamOK(s)'
    BY <1>9, PublishedStreams
  <2>4. QED
    BY <1>2, <1>3, <2>1, <2>2, <2>3
<1>10. ASSUME NEW r \in Rows, Retract(r)
       PROVE  IInv'
  <2>1. /\ stream' = stream /\ page' = page /\ slots' = slots
        /\ revoked' = revoked /\ drops' = drops
    BY <1>10 DEF Retract
  <2>2. RowTypes /\ next' = next /\ RowsOK' /\ hides' \in [Rows -> Nat]
    BY <1>3, <1>10, <2>1, RetractFacts
  <2>3. MailTypes /\ failures' \in Nat /\ \A s \in Streams : StreamOK(s)'
    BY <1>10, PublishedStreams
  <2>4. QED
    BY <1>2, <1>3, <2>1, <2>2, <2>3
<1>11. CASE Revoke
  <2>1. /\ stream' = stream /\ page' = page /\ slots' = slots
        /\ revoked' = TRUE /\ drops' = drops /\ hides' = hides
        /\ UNCHANGED <<row, next, events, hides>>
    BY <1>11 DEF Revoke, db
  <2>2. RowTypes /\ next' = next /\ RowsOK'
    BY <2>1, TameFacts
  <2>3. MailTypes /\ failures' \in Nat /\ \A s \in Streams : StreamOK(s)'
    BY <1>11, PublishedStreams
  <2>4. QED
    BY <1>2, <1>3, <2>1, <2>2, <2>3
<1>12. QED
  BY <1>5, <1>6, <1>7, <1>8, <1>9, <1>10, <1>11

\* What a step of stream s does to places and types.
Moves(s) ==
    /\ stream' \in [Streams -> StreamStates] /\ MailTypes
    /\ page' \in [Streams -> Pages] /\ Only(s)
    /\ revoked' = revoked /\ drops' \in Nat /\ hides' = hides /\ failures' \in Nat
    /\ \/ stream'[s].pc = "none" /\ stream[s].pc # "none" /\ slots' \in {slots, slots + 1}
       \/ (stream'[s].pc = "none" <=> stream[s].pc = "none") /\ slots' = slots
       \/ stream[s].pc = "none" /\ stream'[s].pc # "none" /\ slots' = slots /\ Places < MaxStreams

\* Every step of a stream moves it alone.
LEMMA StreamMoves ==
    ASSUME IInv, NEW s \in Streams, Reserve(s) \/ Attach(s) \/ Drop(s) \/ Streaming(s)
    PROVE  Moves(s)
<1>1. TypeOK /\ stream[s] \in StreamStates /\ stream \in [Streams -> StreamStates]
  BY DEF IInv, TypeOK
<1>2. /\ page \in [Streams -> Pages] /\ drops \in Nat /\ failures \in Nat
      /\ mail' = mail /\ missed' = missed => MailTypes
  BY <1>1 DEF TypeOK, MailTypes
<1>3. CASE Reserve(s)
  <2>1. /\ stream'[s] = [stream[s] EXCEPT !.pc = "reserved"]
        /\ stream' \in [Streams -> StreamStates] /\ Only(s)
    BY <1>1, <1>3, ConnectFacts
  <2>2. stream'[s].pc = "reserved"
    BY <1>1, <2>1 DEF StreamStates
  <2>3. /\ mail' = mail /\ missed' = missed /\ failures' = failures
        /\ page' = page /\ revoked' = revoked /\ drops' = drops
        /\ hides' = hides /\ slots' = slots /\ stream[s].pc = "none" /\ Places < MaxStreams
    BY <1>3 DEF Reserve
  <2>4. QED
    BY <1>2, <2>1, <2>2, <2>3 DEF Moves
<1>4. CASE Attach(s)
  <2>1. /\ stream'[s] = [NoStream EXCEPT !.pc = "open", !.queued = TRUE,
                                         !.chain = <<<<"start">>, <<"push">>>>]
        /\ Only(s)
        /\ stream' \in [Streams -> StreamStates] /\ MailTypes
    BY <1>1, <1>4, ConnectFacts
  <2>2. stream'[s].pc = "open"
    BY <2>1 DEF NoStream
  <2>3. /\ page' = page /\ revoked' = revoked /\ drops' = drops /\ failures' = failures
        /\ hides' = hides /\ slots' = slots /\ stream[s].pc = "reserved"
    BY <1>4 DEF Attach
  <2>4. QED
    BY <1>2, <2>1, <2>2, <2>3 DEF Moves
<1>5. CASE Drop(s)
  <2>1. Detached(s)
    BY <1>5 DEF Drop
  <2>2. /\ page' = page /\ revoked' = revoked /\ drops' = drops + 1 /\ failures' = failures
        /\ hides' = hides /\ slots' \in {slots, slots + 1} /\ stream[s].pc # "none"
    BY <1>5 DEF Drop
  <2>3. /\ stream'[s].pc = "none" /\ Only(s)
        /\ stream' \in [Streams -> StreamStates] /\ MailTypes
    <3>1. /\ stream'[s] = NoStream
          /\ \A t \in Streams \ {s} : /\ stream'[t] = stream[t] /\ mail'[t] = mail[t]
                                       /\ missed'[t] = missed[t]
          /\ stream' \in [Streams -> StreamStates] /\ MailTypes
      BY <1>1, <2>1, ConnectFacts
    <3>2. NoStream.pc = "none"
      BY DEF NoStream
    <3>3. QED
      BY <2>2, <3>1, <3>2 DEF Only
  <2>4. QED
    BY <1>2, <2>2, <2>3 DEF Moves
<1>6. ASSUME stream'[s].pc = stream[s].pc, Only(s), stream' \in [Streams -> StreamStates],
             MailTypes, page' \in [Streams -> Pages],
             failures' \in Nat, UNCHANGED <<slots, revoked, drops, hides>>
      PROVE  Moves(s)
  BY <1>2, <1>6 DEF Moves
<1>7. CASE Hear(s)
  <2>1. page' = page /\ failures' \in Nat /\ UNCHANGED <<slots, revoked, drops, hides>>
    BY <1>2, <1>7 DEF Hear
  <2>2. stream[s].pc = "open"
    <3>1. PICK m \in Messages : mail[s][m] > 0
      BY <1>7 DEF Hear
    <3>2. NoMail[m] = 0
      BY DEF NoMail
    <3>3. mail[s] # NoMail
      BY <3>1, <3>2
    <3>4. QED
      BY <3>3 DEF IInv, StreamOK, ClosedOK
  <2>3. /\ stream' \in [Streams -> StreamStates] /\ MailTypes
        /\ Only(s)
        /\ \/ stream'[s] = NoStream
           \/ stream'[s] = stream[s]
           \/ stream'[s] = [stream[s] EXCEPT !.queued = TRUE,
                                             !.chain = Append(stream[s].chain, <<"push">>)]
           \/ \E r \in Rows : stream'[s] = [stream[s] EXCEPT !.chain =
                                               Append(stream[s].chain, <<"retract", r>>)]
    BY <1>1, <1>7, HearFacts
  <2>4. stream'[s].pc \in {"none", stream[s].pc}
    <3>1. NoStream.pc = "none"
      BY DEF NoStream
    <3>2. CASE stream'[s] = NoStream \/ stream'[s] = stream[s]
      BY <3>1, <3>2
    <3>3. CASE stream'[s] = [stream[s] EXCEPT !.queued = TRUE,
                                              !.chain = Append(stream[s].chain, <<"push">>)]
      BY <1>1, <3>3 DEF StreamStates
    <3>4. ASSUME NEW r \in Rows,
                 stream'[s] = [stream[s] EXCEPT !.chain =
                                  Append(stream[s].chain, <<"retract", r>>)]
          PROVE  stream'[s].pc = stream[s].pc
      BY <1>1, <3>4 DEF StreamStates
    <3>5. QED
      BY <2>3, <3>2, <3>3, <3>4
  <2>5. QED
    BY <1>2, <2>1, <2>2, <2>3, <2>4 DEF Moves
<1>8. CASE Subscribed(s) \/ SubscribeFails(s)
  <2>1. SubStep(s)
    BY <1>1, <1>8, HearFacts
  <2>2. PICK sub \in {"failed", "heard"} : stream'[s] = [stream[s] EXCEPT !.sub = sub]
    BY <1>1, <2>1, HearFacts
  <2>3. stream' \in [Streams -> StreamStates] /\ Only(s)
    BY <1>1, <2>1, HearFacts
  <2>4. /\ mail' = mail /\ missed' = missed /\ page' = page
        /\ UNCHANGED <<slots, revoked, drops, hides>> /\ failures' \in Nat
    BY <2>1 DEF SubStep
  <2>5. stream'[s].pc = stream[s].pc
    BY <1>1, <2>2 DEF StreamStates
  <2>6. QED
    BY <1>2, <1>6, <2>3, <2>4, <2>5
<1>9. CASE Start(s)
  <2>1. /\ stream'[s] = [stream[s] EXCEPT !.top = Newest, !.at = "fetch"]
        /\ stream' \in [Streams -> StreamStates] /\ Only(s)
    BY <1>1, <1>9, WriteFacts
  <2>2. /\ mail' = mail /\ missed' = missed /\ page' = page
        /\ UNCHANGED <<slots, revoked, drops, hides, failures>>
    BY <1>9 DEF Start
  <2>3. stream'[s].pc = stream[s].pc
    BY <1>1, <2>1 DEF StreamStates
  <2>4. QED
    BY <1>2, <1>6, <2>1, <2>2, <2>3
<1>10. CASE Fetch(s)
  <2>1. PICK rows \in SUBSET Sendable, last \in Nat :
           /\ stream'[s] = Reading(s, rows, last, Newest, stream[s].queued)
           /\ stream' \in [Streams -> StreamStates] /\ Only(s)
    BY <1>1, <1>10, FetchFacts
  <2>2. /\ mail' = mail /\ missed' = missed /\ page' = page
        /\ UNCHANGED <<slots, revoked, drops, hides, failures>>
    BY <1>10 DEF Fetch
  <2>3. stream'[s].pc = stream[s].pc
    BY <1>1, <2>1, ReadingFields
  <2>4. QED
    BY <1>2, <1>6, <2>1, <2>2, <2>3
<1>11. CASE Push(s)
  <2>1. PICK rows \in SUBSET Rows, last \in Nat :
           /\ stream'[s] = Reading(s, rows, last, stream[s].since, NoStream.queued)
           /\ stream' \in [Streams -> StreamStates] /\ MailTypes /\ Only(s)
    BY <1>1, <1>11, PushFacts
  <2>2. page' = page /\ UNCHANGED <<slots, revoked, drops, hides, failures>>
    BY <1>11 DEF Push
  <2>3. stream'[s].pc = stream[s].pc
    BY <1>1, <2>1, ReadingFields
  <2>4. QED
    BY <1>2, <1>6, <2>1, <2>2, <2>3
<1>12. CASE RecordSends(s)
  <2>1. /\ stream'[s] = [stream[s] EXCEPT !.at = "write"]
        /\ stream' \in [Streams -> StreamStates] /\ Only(s)
    BY <1>1, <1>12, WriteFacts
  <2>2. /\ mail' = mail /\ missed' = missed /\ page' = page
        /\ UNCHANGED <<slots, revoked, drops, hides, failures>>
    BY <1>12, TameFacts DEF RecordSends
  <2>3. stream'[s].pc = stream[s].pc
    BY <1>1, <2>1 DEF StreamStates
  <2>4. QED
    BY <1>2, <1>6, <2>1, <2>2, <2>3
<1>13. CASE Write(s)
  <2>1. stream[s].chain # <<>>
    <3>1. stream[s].at = "write"
      BY <1>13 DEF Write
    <3>2. OpenOK(s)
      BY <3>1, TaskFacts
    <3>3. QED
      BY <3>1, <3>2 DEF OpenOK, ChainOK
  <2>2. /\ stream'[s] = [stream[s] EXCEPT
                           !.at = "idle", !.chain = Tail(stream[s].chain), !.batch = {},
                           !.fresh = {}, !.wrote = stream[s].wrote \cup stream[s].batch,
                           !.last = Passed(s)]
        /\ stream' \in [Streams -> StreamStates] /\ page' \in [Streams -> Pages] /\ Only(s)
    BY <1>1, <1>13, <2>1, WriteFacts
  <2>3. mail' = mail /\ missed' = missed /\ UNCHANGED <<slots, revoked, drops, hides, failures>>
    BY <1>13 DEF Write
  <2>4. stream'[s].pc = stream[s].pc
    BY <1>1, <2>2 DEF StreamStates
  <2>5. QED
    BY <1>2, <1>6, <2>2, <2>3, <2>4
<1>14. CASE WriteRetract(s)
  <2>1. PICK r \in Rows :
           /\ stream'[s] = [stream[s] EXCEPT !.chain = Tail(stream[s].chain)]
           /\ stream' \in [Streams -> StreamStates] /\ page' \in [Streams -> Pages] /\ Only(s)
    BY <1>1, <1>14, WriteFacts
  <2>2. mail' = mail /\ missed' = missed /\ UNCHANGED <<slots, revoked, drops, hides, failures>>
    BY <1>14 DEF WriteRetract
  <2>3. stream'[s].pc = stream[s].pc
    BY <1>1, <2>1 DEF StreamStates
  <2>4. QED
    BY <1>2, <1>6, <2>1, <2>2, <2>3
<1>15. QED
  BY <1>3, <1>4, <1>5, <1>7, <1>8, <1>9, <1>10, <1>11, <1>12, <1>13, <1>14 DEF Streaming

\* A step of a stream keeps the invariant.
LEMMA StreamSteps ==
    ASSUME IInv, NEW s \in Streams, Reserve(s) \/ Attach(s) \/ Drop(s) \/ Streaming(s)
    PROVE  IInv'
<1>1. Moves(s)
  BY StreamMoves
<1>2. TypeOK /\ Places <= MaxStreams /\ slots \in Nat /\ MaxStreams \in Nat
  BY OverlayConstantsOK DEF IInv, TypeOK
<1>3. RowTypes /\ next' = next /\ RowsOK' /\ Tame
  <2>1. RecordSends(s) \/ UNCHANGED <<row, next, events, hides>>
    BY DEF Reserve, Attach, Drop, Streaming, Subscribed, SubscribeFails, Hear, Start, Fetch, Push, Write,
           WriteRetract, db
  <2>2. QED
    BY <2>1, TameFacts
<1>4. StreamOK(s)'
  <2>1. ASSUME Drop(s) PROVE stream'[s] = NoStream /\ mail'[s] = NoMail
    BY <1>2, <2>1, ConnectFacts DEF Drop
  <2>2. Subscribed(s) \/ SubscribeFails(s) => SubStep(s)
    BY <1>2, HearFacts
  <2>3. QED
    BY <2>1, <2>2, CloseStream, AttachStream, SubscribedStream, HearStream, StartStream, FetchStream,
       PushStream, RecordStream, WriteStream, WriteRetractStream DEF Streaming
<1>5. \A t \in Streams \ {s} : StreamOK(t)'
  BY <1>1, <1>3, SameStream DEF Moves, Only
<1>6. slots' \in Nat
  BY <1>1, <1>2 DEF Moves
<1>7. TypeOK'
  BY <1>1, <1>2, <1>3, <1>6 DEF Moves, RowTypes, MailTypes, TypeOK
<1>8. Places' <= MaxStreams
  <2>1. \A t \in Streams \ {s} : stream'[t].pc = "none" <=> stream[t].pc = "none"
    BY <1>1 DEF Moves, Only
  <2>2. /\ Cardinality(Taken) \in Nat /\ Cardinality(Taken') \in Nat
        /\ Places = Cardinality(Taken) + slots /\ Places' = Cardinality(Taken') + slots'
        /\ stream'[s].pc # "none" /\ stream[s].pc = "none" =>
              Cardinality(Taken') = Cardinality(Taken) + 1
        /\ stream'[s].pc = "none" /\ stream[s].pc # "none" =>
              Cardinality(Taken') = Cardinality(Taken) - 1
        /\ (stream'[s].pc = "none" <=> stream[s].pc = "none") =>
              Cardinality(Taken') = Cardinality(Taken)
    BY <1>2, <2>1, PlacesMove
  <2>3. CASE stream'[s].pc = "none" /\ stream[s].pc # "none" /\ slots' \in {slots, slots + 1}
    BY <1>2, <2>2, <2>3
  <2>4. CASE (stream'[s].pc = "none" <=> stream[s].pc = "none") /\ slots' = slots
    BY <1>2, <2>2, <2>4
  <2>5. CASE /\ stream[s].pc = "none" /\ stream'[s].pc # "none" /\ slots' = slots
             /\ Places < MaxStreams
    BY <1>2, <2>2, <2>5
  <2>6. QED
    BY <1>1, <2>3, <2>4, <2>5 DEF Moves
<1>9. QED
  BY <1>3, <1>4, <1>5, <1>7, <1>8 DEF IInv

LEMMA InitIInv == Init => IInv
<1> SUFFICES ASSUME Init PROVE IInv
  OBVIOUS
<1>1. MaxRows \in Nat /\ MaxStreams \in Nat /\ Rows \subseteq Nat \ {0}
  BY OverlayConstantsOK DEF Rows
<1>2. TypeOK
  <2>1. [status |-> "none", hidden |-> FALSE, old |-> FALSE] \in RowStates
    BY DEF RowStates
  <2>2. [shown |-> {}, retracted |-> {}, lastId |-> 0] \in Pages
    BY DEF Pages
  <2>3. 1 \in 1..MaxRows + 1
    BY <1>1
  <2>4. row \in [Rows -> RowStates] /\ next \in 1..MaxRows + 1
    BY <2>1, <2>3 DEF Init
  <2>5. events \in [Rows -> SUBSET {"delivered", "failed"}] /\ stream \in [Streams -> StreamStates]
    BY NoStreamTypes DEF Init
  <2>6. /\ mail \in [Streams -> [Messages -> Nat]] /\ missed \in [Streams -> Misses]
        /\ page \in [Streams -> Pages]
    BY <2>2, NoStreamTypes DEF Init
  <2>7. /\ slots \in Nat /\ revoked \in BOOLEAN /\ drops \in Nat /\ failures \in Nat
        /\ hides \in [Rows -> Nat]
    BY DEF Init
  <2>8. QED
    BY <2>4, <2>5, <2>6, <2>7 DEF TypeOK
<1>3. RowsOK
  BY <1>1 DEF Init, RowsOK
<1>4. \A s \in Streams : StreamOK(s)
  BY DEF Init, StreamOK, ClosedOK, NoStream
<1>5. Places <= MaxStreams
  <2>1. {s \in Streams : stream[s].pc # "none"} = {}
    BY DEF Init, NoStream
  <2>2. Places = 0
    <3>1. Cardinality({s \in Streams : stream[s].pc # "none"}) = 0
      BY <2>1, FS_EmptySet
    <3>2. slots = 0
      BY DEF Init
    <3>3. QED
      BY <3>1, <3>2 DEF Places
  <2>3. QED
    BY <1>1, <2>2
<1>6. QED
  BY <1>2, <1>3, <1>4, <1>5 DEF IInv

-----------------------------------------------------------------------------
(* Theorems *)

\* Every reachable state has its types, its rows numbered one after the other, every stream in
\* order and the token within its places.
THEOREM OverlayInvariant == Spec => []IInv
<1>1. IInv /\ [Next]_vars => IInv'
  <2> SUFFICES ASSUME IInv, [Next]_vars PROVE IInv'
    OBVIOUS
  <2>1. QED
    BY RowSteps, StreamSteps DEF Next
<1>2. QED
  BY <1>1, InitIInv, PTL DEF Spec

\* A delivery is delivered or failed, and one event says which, however its first write and the
\* end of its window meet.
THEOREM OneOutcomeEach == Spec => []OneOutcome
<1>1. IInv => OneOutcome
  <2> SUFFICES ASSUME IInv, NEW r \in Rows
               PROVE  /\ Cardinality(events[r]) <= 1
                      /\ row[r].status \in {"delivered", "failed"} <=> events[r] = {row[r].status}
    BY DEF OneOutcome
  <2>1. events[r] = IF row[r].status \in {"delivered", "failed"} THEN {row[r].status} ELSE {}
    BY DEF IInv, RowsOK
  <2>2. Cardinality({}) = 0 /\ Cardinality({row[r].status}) = 1
    BY FS_EmptySet, FS_Singleton
  <2>3. QED
    BY <2>1, <2>2
<1>2. QED
  BY <1>1, OverlayInvariant, PTL

\* A token never has more streams than it may, although places are taken before connections
\* are attached and outlive processes that died.
THEOREM CapHolds == Spec => []StreamCap
<1>1. IInv => StreamCap
  <2> SUFFICES ASSUME IInv PROVE StreamCap
    OBVIOUS
  <2>1. Open \subseteq Taken /\ IsFiniteSet(Taken)
    <3>1. Taken \subseteq Streams /\ Open \subseteq Taken
      BY DEF Taken, Open
    <3>2. QED
      BY <3>1, OverlayConstantsOK, FS_Subset
  <2>2. /\ Cardinality(Open) <= Cardinality(Taken)
        /\ Cardinality(Open) \in Nat /\ Cardinality(Taken) \in Nat
    <3>1. IsFiniteSet(Open) /\ Cardinality(Open) <= Cardinality(Taken)
      BY <2>1, FS_Subset
    <3>2. QED
      BY <2>1, <3>1, FS_CardinalityType
  <2>3. Cardinality(Taken) + slots <= MaxStreams /\ slots \in Nat /\ MaxStreams \in Nat
    BY OverlayConstantsOK DEF IInv, TypeOK, Places, Taken
  <2>4. QED
    BY <2>2, <2>3 DEF StreamCap, Open
<1>2. QED
  BY <1>1, OverlayInvariant, PTL

\* What a moderator hid is taken back on every connection it was written on, whatever the
\* stream was doing at that moment, unless the retraction did not reach the stream's process.
THEOREM HiddenTakenBack == Spec => []HiddenIsTakenBack
<1>1. IInv => HiddenIsTakenBack
  <2> SUFFICES ASSUME IInv, NEW s \in Streams, stream[s].pc = "open", NEW r \in stream[s].wrote,
                      row[r].hidden, r \in page[s].shown
               PROVE  \/ mail[s][<<"retract", r>>] > 0 \/ mail[s][<<"revoke">>] > 0
                      \/ \E n \in 1..Len(stream[s].chain) : stream[s].chain[n] = <<"retract", r>>
                      \/ r \in missed[s].unaware
    BY DEF HiddenIsTakenBack
  <2>1. TakenOK(s)
    BY DEF IInv, StreamOK, OpenOK
  <2>2. \/ Coming(s, <<"retract", r>>) \/ Coming(s, <<"revoke">>)
        \/ In(<<"retract", r>>, stream[s].chain) \/ r \in missed[s].unaware
    BY <2>1 DEF TakenOK
  <2>3. QED
    BY <2>2 DEF In, Coming
<1>2. QED
  BY <1>1, OverlayInvariant, PTL

\* A stream passes no row it shows that was committed since it read what to begin with, however
\* many a push leaves for the next.
THEOREM NonePassed == Spec => []NothingPassed
<1>1. IInv => NothingPassed
  <2> SUFFICES ASSUME IInv, NEW s \in Streams, stream[s].pc = "open", NEW r \in Shows(s),
                      r > stream[s].since
               PROVE  r \in stream[s].wrote \cup stream[s].batch \/ r > stream[s].last
    BY DEF NothingPassed
  <2>1. OpenOK(s)
    BY DEF IInv, StreamOK
  <2>2. r \in Wants[s] /\ r \in Sendable /\ hides[r] = 0 /\ ~row[r].old
    BY DEF Shows
  <2>3. r \in Nat /\ stream[s].since \in Nat /\ stream[s].last \in Nat
    BY <2>2, TaskFacts
  <2>4. Live(r) /\ stream[s].since < r
    BY <2>2, <2>3 DEF Live, Sendable
  <2>5. QED
    BY <2>1, <2>2, <2>3, <2>4 DEF OpenOK, SkipOK
<1>2. QED
  BY <1>1, OverlayInvariant, PTL

\* A stream that is quiet wrote every row it shows that was committed since it read what to
\* begin with, but those whose notification was lost, or whose push was full, and no other came
\* since: the next notification makes up for a lost one.
THEOREM NoneSkipped == Spec => []NothingSkipped
<1>1. IInv => NothingSkipped
  <2> SUFFICES ASSUME IInv, NEW s \in Streams, Quiet(s), NEW r \in Shows(s), r > stream[s].since
               PROVE  r \in stream[s].wrote \cup missed[s].late
    BY DEF NothingSkipped
  <2>1. /\ stream[s].pc = "open" /\ stream[s].chain = <<>> /\ mail[s] = NoMail
    BY DEF Quiet
  <2>2. OpenOK(s)
    BY <2>1 DEF IInv, StreamOK
  <2>3. stream[s].at = "idle" /\ stream[s].batch = {}
    BY <2>1, <2>2 DEF OpenOK, ChainOK, OrderOK
  <2>4. ~PushWaits(stream[s]) /\ ~Coming(s, <<"new">>)
    <3>1. NoMail[<<"new">>] = 0
      BY DEF NoMail, Messages
    <3>2. ~(NoMail[<<"new">>] > 0)
      BY <3>1
    <3>3. QED
      BY <2>1, <3>2, EmptySeq DEF PushWaits, Coming
  <2>5. r \in Wants[s] /\ Live(r) /\ stream[s].since < r
    <3>1. r \in Wants[s] /\ r \in Sendable /\ hides[r] = 0 /\ ~row[r].old
      BY DEF Shows
    <3>2. r \in Nat /\ stream[s].since \in Nat
      BY <3>1, TaskFacts
    <3>3. QED
      BY <3>1, <3>2 DEF Live, Sendable
  <2>6. QED
    BY <2>2, <2>3, <2>4, <2>5 DEF OpenOK, SkipOK
<1>2. QED
  BY <1>1, OverlayInvariant, PTL

\* What is written on a connection is newer than everything written on it before, in every step.
THEOREM SeenOnceInOrder == Spec => OnceInOrder
<1> DEFINE A == \A s \in Streams :
                  stream[s].at = "write" /\ stream'[s].at = "idle" /\ stream'[s].pc = "open" =>
                      \A r \in stream[s].batch, q \in stream[s].wrote : q < r
<1>1. IInv => A
  <2> SUFFICES ASSUME IInv, NEW s \in Streams, stream[s].at = "write"
               PROVE  \A r \in stream[s].batch, q \in stream[s].wrote : q < r
    OBVIOUS
  <2>1. OpenOK(s)
    BY TaskFacts
  <2>2. QED
    BY <2>1 DEF OpenOK, OrderOK
<1>2. IInv /\ [Next]_vars => [A]_vars
  BY <1>1
<1>3. QED
  BY <1>2, OverlayInvariant, PTL DEF Spec, OnceInOrder

=============================================================================
