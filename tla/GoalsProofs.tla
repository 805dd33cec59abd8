---------------------------- MODULE GoalsProofs ----------------------------
(***************************************************************************)
(* Proofs about Goals, for any number of transactions, tips and goals: a   *)
(* goal is marked reached exactly when it is, the last announcement of a   *)
(* goal is true, an edit that carries a revision overwrites nothing its    *)
(* editor did not see, the limit of active goals holds and no transactions *)
(* wait for each other in a circle.                                        *)
(***************************************************************************)
EXTENDS Goals, FiniteSetTheorems, TLAPS

-----------------------------------------------------------------------------
(* Lists of locks *)

LEMMA Lists ==
    ASSUME NEW a, NEW b, NEW c
    PROVE  /\ Head(<<a, b, c>>) = a /\ Tail(<<a, b, c>>) = <<b, c>> /\ <<a, b, c>> # <<>>
           /\ Head(<<a, b>>) = a /\ Tail(<<a, b>>) = <<b>> /\ <<a, b>> # <<>>
           /\ Head(<<a>>) = a /\ Tail(<<a>>) = << >> /\ <<a>> # <<>>
           /\ \A d, e : <<a, b>> # <<d>> /\ (<<a, b>> = <<d, e>> => a = d /\ b = e)
           /\ \A d, e : <<a, b, c>> # <<d>> /\ <<a, b, c>> # <<d, e>>
<1>1. Head(<<a, b, c>>) = a /\ Head(<<a, b>>) = a /\ Head(<<a>>) = a
  OBVIOUS
<1>2. Tail(<<a, b, c>>) = <<b, c>>
  OBVIOUS
<1>3. Tail(<<a, b>>) = <<b>>
  OBVIOUS
<1>4. Tail(<<a>>) = << >>
  OBVIOUS
<1>5. <<a, b, c>> # <<>> /\ <<a, b>> # <<>> /\ <<a>> # <<>>
  OBVIOUS
<1>6. ASSUME NEW d, NEW e PROVE <<a, b>> # <<d>> /\ (<<a, b>> = <<d, e>> => a = d /\ b = e)
  OBVIOUS
<1>7. ASSUME NEW d, NEW e PROVE <<a, b, c>> # <<d>> /\ <<a, b, c>> # <<d, e>>
  OBVIOUS
<1> QED BY <1>1, <1>2, <1>3, <1>4, <1>5, <1>6, <1>7

LEMMA Compared == ASSUME NEW a, NEW b PROVE (a >= b) \in BOOLEAN
OBVIOUS

LEMMA ListTypes ==
    ASSUME NEW S, NEW a \in S, NEW b \in S, NEW c \in S
    PROVE  <<a, b, c>> \in Seq(S) /\ <<a, b>> \in Seq(S) /\ <<a>> \in Seq(S) /\ <<>> \in Seq(S)
OBVIOUS

-----------------------------------------------------------------------------
(* The inductive invariant *)

Types ==
    /\ goal \in [GoalIds -> GoalRows] /\ contrib \in [Tips -> Contributions]
    /\ paid \in [Tips -> {"pending", "settled", "reversed"}]
    /\ holder \in [Locks -> Procs \cup {NoProc}] /\ tx \in [Procs -> Txs]

\* The last announcements are the goals as they are.
Told == told = [g \in GoalIds |-> View(goal[g], Total(contrib, g))]

\* A contribution is of a tip that was settled, to a goal there is, and keeps what is left.
Contributed ==
    \A i \in Tips :
        /\ contrib[i].reversed <= contrib[i].amount
        /\ paid[i] = "pending" => contrib[i].goal = NoGoal
        /\ \A g \in GoalIds : contrib[i].goal = g => goal[g].status # "none"

Limited == IsFiniteSet(Active(goal)) /\ Cardinality(Active(goal)) <= MaxActive

\* What is left of a transaction's list of locks.
Shape(t) ==
    /\ t.op = "none" => t.locks = <<>>
    /\ t.op \in {"settle", "reverse"} =>
          /\ t.tip \in Tips
          /\ t.goal = NoGoal => t.op = "settle" /\ t.locks \in {<<t.tip, Stream>>, <<Stream>>, <<>>}
          /\ t.goal # NoGoal =>
                t.locks \in {<<t.tip, t.goal, Stream>>, <<t.goal, Stream>>, <<Stream>>, <<>>}
    /\ t.op = "create" =>
          t.goal # NoGoal /\ t.locks \in {<<Creator, Stream>>, <<Stream>>, <<>>}
    /\ t.op \in {"edit", "close"} =>
          t.goal # NoGoal /\ t.locks \in {<<t.goal, Stream>>, <<Stream>>, <<>>}

\* The locks it has are those before what is left, and the goal's or the creator's it needs.
Holds(p, t, h) ==
    /\ h[Stream] = p => t.op # "none" /\ t.locks = <<>>
    /\ \A g \in GoalIds : h[g] = p =>
          t.op \in {"settle", "reverse", "edit", "close"} /\ t.locks \in {<<Stream>>, <<>>}
    /\ \A i \in Tips : h[i] = p =>
          t.op \in {"settle", "reverse"} /\ t.locks \in {<<t.goal, Stream>>, <<Stream>>, <<>>}
    /\ h[Creator] = p => t.op = "create" /\ t.locks \in {<<Stream>>, <<>>}
    /\ t.op \in {"settle", "reverse", "edit", "close"} /\ t.goal # NoGoal
          /\ t.locks \in {<<Stream>>, <<>>} => h[t.goal] = p
    /\ t.op = "create" /\ t.locks \in {<<Stream>>, <<>>} => h[Creator] = p

\* The same contributions to a goal.
Agree(c, d, g) == \A i \in Tips : c[i].goal = g \/ d[i].goal = g => c[i] = d[i]

\* A snapshot is of the past, and a goal of the same revision has the same contributions.
Past(t, gs, c) ==
    \A g \in GoalIds : /\ t.goals[g].revision <= gs[g].revision
                       /\ t.goals[g] = gs[g] => Agree(t.tips, c, g)

\* What an edit saw is of the past, and the goal while nobody changed it.
Saw(t, gs) ==
    /\ t.seen <= gs[t.goal].revision
    /\ gs[t.goal].revision = t.seen => gs[t.goal] = t.goals[t.goal]

\* What a transaction knows of the goals.
Knows(p, t, gs, c, h) ==
    /\ t.op \in {"settle", "reverse"} => Past(t, gs, c)
    /\ t.op \in {"settle", "reverse"} /\ t.goal # NoGoal /\ h[t.goal] = p =>
          t.goals[t.goal] = gs[t.goal]
    /\ t.op = "reverse" => t.tips[t.tip].goal = t.goal
    /\ t.op \in {"settle", "reverse", "edit", "close"} /\ t.goal # NoGoal =>
          gs[t.goal].status # "none"
    /\ t.op = "create" =>
          /\ gs[t.goal].status = "none" /\ t.what # 0
          /\ t.seen = 1 => t.locks \in {<<Stream>>, <<>>} /\ Cardinality(Active(gs)) < MaxActive
          /\ t.locks = <<>> => t.seen = 1
    /\ t.op = "edit" /\ t.seen # 0 => Saw(t, gs)

TxOK(p) == Shape(tx[p]) /\ Holds(p, tx[p], holder) /\ Knows(p, tx[p], goal, contrib, holder)

\* No two transactions create the same goal.
Distinct ==
    \A p, q \in Procs :
        p # q /\ tx[p].op = "create" /\ tx[q].op = "create" => tx[p].goal # tx[q].goal

IInv ==
    /\ Types /\ Told /\ Contributed /\ ReachedIsTrue /\ Limited /\ Distinct
    /\ \A p \in Procs : TxOK(p)

-----------------------------------------------------------------------------
(* Facts *)

LEMMA AgreeTotal ==
    ASSUME NEW c \in [Tips -> Contributions], NEW d \in [Tips -> Contributions],
           NEW g \in GoalIds, Agree(c, d, g)
    PROVE  Total(c, g) = Total(d, g)
<1>1. {i \in Tips : c[i].goal = g} = {i \in Tips : d[i].goal = g}
  BY DEF Agree
<1>2. (\A i \in Tips : c[i].goal # g) <=> (\A i \in Tips : d[i].goal # g)
  BY <1>1
<1>3. Given(c, g) = Given(d, g)
  <2>1. \A i \in {j \in Tips : d[j].goal = g} :
            c[i].amount - c[i].reversed = d[i].amount - d[i].reversed
    BY DEF Agree
  <2> QED BY <1>1, <2>1 DEF Given
<1> QED BY <1>2, <1>3 DEF Total

LEMMA NoTxFacts ==
    /\ NoRow \in GoalRows /\ NoContribution \in Contributions
    /\ NoTx \in Txs /\ NoTx.op = "none" /\ NoTx.goal = NoGoal /\ NoTx.locks = <<>>
<1>1. NoRow \in GoalRows /\ NoContribution \in Contributions
  BY DEF NoRow, NoContribution, GoalRows, Contributions
<1>2. << >> \in Seq(Locks)
  OBVIOUS
<1>3. NoTx \in Txs /\ NoTx.op = "none" /\ NoTx.goal = NoGoal /\ NoTx.locks = <<>>
  BY <1>1, <1>2 DEF NoTx, Txs
<1> QED BY <1>1, <1>3

\* Locks of different kinds are different.
LEMMA Kinds4 ==
    /\ Creator \in Locks /\ Stream \in Locks /\ Tips \subseteq Locks /\ GoalIds \subseteq Locks
    /\ Creator # Stream /\ Creator \notin Tips /\ Creator \notin GoalIds
    /\ Stream \notin Tips /\ Stream \notin GoalIds /\ Tips \cap GoalIds = {}
    /\ NoGoal \notin GoalIds \cup Tips /\ NoProc \notin Procs
  BY GoalsConstantsOK DEF Locks

\* A transaction that has ended knows and holds nothing.
LEMMA Ended ==
    ASSUME NEW p \in Procs, NEW h, \A l \in Locks : h[l] # p, NEW gs, NEW c
    PROVE  Shape(NoTx) /\ Holds(p, NoTx, h) /\ Knows(p, NoTx, gs, c, h)
<1>1. NoTx.op = "none" /\ NoTx.locks = <<>>
  BY NoTxFacts
<1>2. h[Stream] # p /\ h[Creator] # p /\ (\A i \in Tips : h[i] # p) /\ (\A g \in GoalIds : h[g] # p)
  BY Kinds4
<1> QED BY <1>1, <1>2 DEF Shape, Holds, Knows

\* What a transaction holds and knows depends on its own locks only, while the rows stay.
LEMMA SameTx ==
    ASSUME NEW p \in Procs, NEW t \in Txs, NEW h, NEW k, NEW gs, NEW c,
           Shape(t), Holds(p, t, h), Knows(p, t, gs, c, h),
           \A l \in Locks : k[l] = p <=> h[l] = p
    PROVE  Holds(p, t, k) /\ Knows(p, t, gs, c, k)
<1>1. t.goal # NoGoal => t.goal \in Locks
  BY Kinds4 DEF Txs
<1>2. /\ k[Stream] = p <=> h[Stream] = p
      /\ k[Creator] = p <=> h[Creator] = p
      /\ \A i \in Tips : k[i] = p <=> h[i] = p
      /\ \A g \in GoalIds : k[g] = p <=> h[g] = p
      /\ t.goal # NoGoal => (k[t.goal] = p <=> h[t.goal] = p)
  BY <1>1, Kinds4
<1>3. Holds(p, t, k)
  BY <1>2 DEF Holds
<1>4. Knows(p, t, gs, c, k)
  BY <1>2 DEF Knows
<1> QED BY <1>3, <1>4

-----------------------------------------------------------------------------
(* Beginning, waiting and giving up *)

\* A step of one transaction that leaves the rows as they are.
LEMMA QuietStep ==
    ASSUME IInv, UNCHANGED <<goal, contrib, told>>,
           paid' \in [Tips -> {"pending", "settled", "reversed"}],
           \A i \in Tips : paid'[i] = "pending" => paid[i] = "pending",
           NEW p \in Procs, NEW t \in Txs, tx' = [tx EXCEPT ![p] = t],
           holder' \in [Locks -> Procs \cup {NoProc}],
           \A q \in Procs \ {p} : \A l \in Locks : holder'[l] = q <=> holder[l] = q,
           Shape(t), Holds(p, t, holder'), Knows(p, t, goal, contrib, holder'),
           t.op = "create" => \A q \in Procs \ {p} : tx[q].op = "create" => tx[q].goal # t.goal
    PROVE  IInv'
<1>1. tx \in [Procs -> Txs]
  BY DEF IInv, Types
<1>2. tx' \in [Procs -> Txs] /\ tx'[p] = t /\ \A q \in Procs \ {p} : tx'[q] = tx[q]
  BY <1>1
<1>3. Types' /\ Told' /\ Contributed' /\ ReachedIsTrue' /\ Limited'
  <2>1. goal' = goal /\ contrib' = contrib /\ told' = told
    OBVIOUS
  <2>2. Types'
    BY <1>2, <2>1 DEF IInv, Types
  <2>3. Told' /\ ReachedIsTrue' /\ Limited'
    BY <2>1 DEF IInv, Told, ReachedIsTrue, Limited
  <2>4. Contributed'
    BY <2>1 DEF IInv, Contributed
  <2> QED BY <2>2, <2>3, <2>4
<1>4. Distinct'
  BY <1>2 DEF IInv, Distinct
<1>5. ASSUME NEW q \in Procs PROVE TxOK(q)'
  <2>1. CASE q = p
    BY <1>2, <2>1 DEF TxOK
  <2>2. CASE q # p
    <3>1. Shape(tx[q]) /\ Holds(q, tx[q], holder) /\ Knows(q, tx[q], goal, contrib, holder)
      BY DEF IInv, TxOK
    <3>2. \A l \in Locks : holder'[l] = q <=> holder[l] = q
      BY <2>2
    <3>3. tx[q] \in Txs /\ tx'[q] = tx[q]
      BY <1>1, <1>2, <2>2
    <3>4. Holds(q, tx[q], holder') /\ Knows(q, tx[q], goal, contrib, holder')
      BY <3>1, <3>2, <3>3, SameTx
    <3>5. goal' = goal /\ contrib' = contrib
      OBVIOUS
    <3> QED BY <3>1, <3>3, <3>4, <3>5 DEF TxOK
  <2> QED BY <2>1, <2>2
<1> QED BY <1>3, <1>4, <1>5 DEF IInv

\* What ends a transaction gives back its locks and no other's.
LEMMA ReleaseFacts ==
    ASSUME IInv, NEW p \in Procs, Release(p)
    PROVE  /\ holder' \in [Locks -> Procs \cup {NoProc}]
           /\ \A l \in Locks : holder'[l] # p
           /\ \A q \in Procs \ {p} : \A l \in Locks : holder'[l] = q <=> holder[l] = q
<1>1. holder \in [Locks -> Procs \cup {NoProc}] /\ NoProc \notin Procs
  BY Kinds4 DEF IInv, Types
<1> QED BY <1>1 DEF Release

\* A transaction that ends without changing a goal.
LEMMA EndStep ==
    ASSUME IInv, NEW p \in Procs, tx' = [tx EXCEPT ![p] = NoTx], Release(p),
           UNCHANGED <<goal, contrib, told>>,
           paid' \in [Tips -> {"pending", "settled", "reversed"}],
           \A i \in Tips : paid'[i] = "pending" => paid[i] = "pending"
    PROVE  IInv'
<1>1. /\ holder' \in [Locks -> Procs \cup {NoProc}]
      /\ \A l \in Locks : holder'[l] # p
      /\ \A q \in Procs \ {p} : \A l \in Locks : holder'[l] = q <=> holder[l] = q
  BY ReleaseFacts
<1>2. Shape(NoTx) /\ Holds(p, NoTx, holder') /\ Knows(p, NoTx, goal, contrib, holder')
  BY <1>1, Ended
<1>3. NoTx \in Txs /\ NoTx.op # "create"
  BY NoTxFacts
<1> QED BY <1>1, <1>2, <1>3, QuietStep

\* A transaction that begins has no lock yet.
LEMMA BeginStep ==
    ASSUME IInv, NEW p \in Procs, NEW t \in Txs, Begin(p, t), Shape(t),
           t.locks \notin {<<Stream>>, <<>>},
           Knows(p, t, goal, contrib, [l \in Locks |-> NoProc]),
           t.op = "create" => \A q \in Procs \ {p} : tx[q].op = "create" => tx[q].goal # t.goal
    PROVE  IInv'
<1>1. /\ tx' = [tx EXCEPT ![p] = t] /\ tx[p].op = "none" /\ holder' = holder
      /\ UNCHANGED <<goal, contrib, told, paid>>
  BY DEF Begin, rows
<1>2. Holds(p, tx[p], holder)
  BY DEF IInv, TxOK
<1>3. /\ holder[Stream] # p /\ holder[Creator] # p
      /\ \A g \in GoalIds : holder[g] # p
      /\ \A i \in Tips : holder[i] # p
  BY <1>1, <1>2 DEF Holds
<1>4. \A l \in Locks : holder[l] # p
  BY <1>3 DEF Locks
<1>5. Holds(p, t, holder)
  BY <1>3 DEF Holds
<1>6. NoProc # p
  BY Kinds4
<1>7. Knows(p, t, goal, contrib, holder)
  <2> DEFINE h == [l \in Locks |-> NoProc]
  <2>1. t.goal # NoGoal => t.goal \in Locks
    BY Kinds4 DEF Txs
  <2>2. t.goal # NoGoal => holder[t.goal] # p
    BY <1>4, <2>1
  <2>3. Knows(p, t, goal, contrib, h)
    OBVIOUS
  <2> HIDE DEF h
  <2> QED BY <2>2, <2>3 DEF Knows
<1>8. holder' \in [Locks -> Procs \cup {NoProc}] /\ Holds(p, t, holder')
      /\ Knows(p, t, goal, contrib, holder')
  BY <1>1, <1>5, <1>7 DEF IInv, Types
<1>9. /\ paid' \in [Tips -> {"pending", "settled", "reversed"}]
      /\ \A i \in Tips : paid'[i] = "pending" => paid[i] = "pending"
      /\ \A q \in Procs \ {p} : \A l \in Locks : holder'[l] = q <=> holder[l] = q
  BY <1>1 DEF IInv, Types
<1> QED BY <1>1, <1>8, <1>9, QuietStep

\* A transaction that has just read the rows knows them.
LEMMA FreshSnapshot ==
    ASSUME IInv, NEW t, t.goals = goal, t.tips = contrib
    PROVE  Past(t, goal, contrib)
<1>1. \A g \in GoalIds : goal[g].revision \in Nat
  BY DEF IInv, Types, GoalRows
<1> QED BY <1>1 DEF Past, Agree

LEMMA BeginSettleStep ==
    ASSUME IInv, NEW p \in Procs, NEW i \in Tips, NEW a \in Amounts,
           NEW asked \in GoalIds \cup {NoGoal}, BeginSettle(p, i, a, asked)
    PROVE  IInv'
<1> DEFINE g     == Pick(goal, asked)
           locks == IF g = NoGoal THEN <<i, Stream>> ELSE <<i, g, Stream>>
           t     == [Reading("settle") EXCEPT !.tip = i, !.what = a, !.goal = g, !.locks = locks]
<1>1. Begin(p, t)
  BY DEF BeginSettle
<1>2. g \in GoalIds \cup {NoGoal} /\ (g # NoGoal => goal[g].status = "active")
  <2>1. CASE asked \in Active(goal)
    BY <2>1, Kinds4 DEF Pick, Active
  <2>2. CASE asked \notin Active(goal) /\ Cardinality(Active(goal)) = 1
    <3>1. Active(goal) # {}
      BY <2>2, FS_EmptySet
    <3>2. g \in Active(goal)
      BY <2>2, <3>1 DEF Pick
    <3> QED BY <3>2, Kinds4 DEF Active
  <2>3. CASE asked \notin Active(goal) /\ Cardinality(Active(goal)) # 1
    BY <2>3 DEF Pick
  <2> QED BY <2>1, <2>2, <2>3
<1> HIDE DEF g
<1>3. locks \in Seq(Locks)
  BY <1>2, Kinds4, ListTypes
<1>4. locks \notin {<<Stream>>, <<>>}
  BY Lists
<1>5. goal \in [GoalIds -> GoalRows] /\ contrib \in [Tips -> Contributions] /\ a \in Nat
  BY GoalsConstantsOK DEF IInv, Types
<1> HIDE DEF locks
<1>6. /\ t \in Txs /\ t.op = "settle" /\ t.tip = i /\ t.goal = g /\ t.locks = locks
      /\ t.goals = goal /\ t.tips = contrib
  BY <1>2, <1>3, <1>5, NoTxFacts DEF Reading, Txs
<1> HIDE DEF t
<1>7. Shape(t)
  BY <1>6 DEF Shape, locks
<1>8. Past(t, goal, contrib)
  BY <1>6, FreshSnapshot
<1>9. Knows(p, t, goal, contrib, [l \in Locks |-> NoProc])
  BY <1>2, <1>6, <1>8 DEF Knows
<1> QED BY <1>1, <1>4, <1>6, <1>7, <1>9, BeginStep

LEMMA BeginReverseStep ==
    ASSUME IInv, NEW p \in Procs, NEW i \in Tips, NEW bits \in 1..contrib[i].amount,
           BeginReverse(p, i, bits)
    PROVE  IInv'
<1> DEFINE g     == contrib[i].goal
           locks == <<i, g, Stream>>
           t     == [Reading("reverse") EXCEPT !.tip = i, !.what = bits, !.goal = g,
                                               !.locks = locks]
<1>1. Begin(p, t)
  BY DEF BeginReverse
<1>2. goal \in [GoalIds -> GoalRows] /\ contrib \in [Tips -> Contributions] /\ bits \in Nat
  BY DEF IInv, Types, Contributions
<1>3. g \in GoalIds /\ goal[g].status # "none"
  BY <1>2 DEF BeginReverse, IInv, Contributed, Contributions
<1>4. locks \in Seq(Locks) /\ locks \notin {<<Stream>>, <<>>}
  BY <1>3, Kinds4, ListTypes, Lists
<1> HIDE DEF locks
<1>5. /\ t \in Txs /\ t.op = "reverse" /\ t.tip = i /\ t.goal = g /\ t.locks = locks
      /\ t.goals = goal /\ t.tips = contrib
  BY <1>2, <1>3, <1>4, NoTxFacts DEF Reading, Txs
<1> HIDE DEF t
<1>6. Shape(t)
  BY <1>3, <1>5, Kinds4 DEF Shape, locks
<1>7. Past(t, goal, contrib)
  BY <1>5, FreshSnapshot
<1>8. Knows(p, t, goal, contrib, [l \in Locks |-> NoProc])
  BY <1>3, <1>5, <1>7, Kinds4 DEF Knows
<1> QED BY <1>1, <1>4, <1>5, <1>6, <1>8, BeginStep

LEMMA BeginCreateStep ==
    ASSUME IInv, NEW p \in Procs, NEW g \in GoalIds, NEW target \in Targets,
           BeginCreate(p, g, target)
    PROVE  IInv'
<1> DEFINE locks == <<Creator, Stream>>
           t     == [NoTx EXCEPT !.op = "create", !.goal = g, !.what = target, !.locks = locks]
<1>1. Begin(p, t) /\ goal[g].status = "none" /\ \A q \in Procs : tx[q].goal # g
  BY DEF BeginCreate, CreateLocks
<1>2. target \in Nat /\ target # 0
  BY GoalsConstantsOK
<1>3. locks \in Seq(Locks) /\ locks \notin {<<Stream>>, <<>>}
  BY Kinds4, ListTypes, Lists
<1> HIDE DEF locks
<1>4. t \in Txs /\ t.op = "create" /\ t.goal = g /\ t.locks = locks /\ t.what = target /\ t.seen = 0
  BY <1>2, <1>3, NoTxFacts DEF NoTx, Txs
<1> HIDE DEF t
<1>5. Shape(t)
  BY <1>4, Kinds4 DEF Shape, locks
<1>6. Knows(p, t, goal, contrib, [l \in Locks |-> NoProc])
  BY <1>1, <1>2, <1>3, <1>4 DEF Knows
<1> QED BY <1>1, <1>3, <1>4, <1>5, <1>6, BeginStep

LEMMA BeginEditStep ==
    ASSUME IInv, NEW p \in Procs, NEW g \in GoalIds, NEW target \in Targets,
           BeginEdit(p, g, target)
    PROVE  IInv'
<1> DEFINE locks == <<g, Stream>>
           seen  == [NoTx.goals EXCEPT ![g] = goal[g]]
<1>1. goal[g].status = "active" /\ goal[g] \in GoalRows /\ goal[g].revision \in Nat
  BY DEF BeginEdit, IInv, Types, GoalRows
<1>2. PICK revision \in {0, goal[g].revision} :
          Begin(p, [NoTx EXCEPT !.op = "edit", !.goal = g, !.what = target, !.seen = revision,
                                !.goals = seen, !.locks = locks])
  BY DEF BeginEdit, GoalLocks
<1> DEFINE t == [NoTx EXCEPT !.op = "edit", !.goal = g, !.what = target, !.seen = revision,
                             !.goals = seen, !.locks = locks]
<1>3. target \in Nat /\ revision \in Nat
  BY <1>1, GoalsConstantsOK
<1>4. locks \in Seq(Locks) /\ locks \notin {<<Stream>>, <<>>}
  BY Kinds4, ListTypes, Lists
<1>5. seen \in [GoalIds -> GoalRows] /\ seen[g] = goal[g]
  <2>1. NoTx.goals \in [GoalIds -> GoalRows]
    BY NoTxFacts DEF Txs
  <2> QED BY <1>1, <2>1
<1> HIDE DEF locks, seen
<1>6. /\ t \in Txs /\ t.op = "edit" /\ t.goal = g /\ t.locks = locks /\ t.seen = revision
      /\ t.goals = seen
  BY <1>3, <1>4, <1>5, NoTxFacts DEF Txs
<1>7. Begin(p, t)
  BY <1>2
<1> HIDE DEF t
<1>8. Shape(t)
  BY <1>6, Kinds4 DEF Shape, locks
<1>9. t.seen # 0 => Saw(t, goal)
  BY <1>1, <1>5, <1>6 DEF Saw
<1>10. Knows(p, t, goal, contrib, [l \in Locks |-> NoProc])
  BY <1>1, <1>6, <1>9 DEF Knows
<1> QED BY <1>4, <1>6, <1>7, <1>8, <1>10, BeginStep

LEMMA BeginCloseStep ==
    ASSUME IInv, NEW p \in Procs, NEW g \in GoalIds, BeginClose(p, g)
    PROVE  IInv'
<1> DEFINE locks == <<g, Stream>>
           t     == [NoTx EXCEPT !.op = "close", !.goal = g, !.locks = locks]
<1>1. Begin(p, t) /\ goal[g].status = "active"
  BY DEF BeginClose, GoalLocks
<1>2. locks \in Seq(Locks) /\ locks \notin {<<Stream>>, <<>>}
  BY Kinds4, ListTypes, Lists
<1> HIDE DEF locks
<1>3. t \in Txs /\ t.op = "close" /\ t.goal = g /\ t.locks = locks
  BY <1>2, NoTxFacts DEF Txs
<1> HIDE DEF t
<1>4. Shape(t)
  BY <1>3, Kinds4 DEF Shape, locks
<1>5. Knows(p, t, goal, contrib, [l \in Locks |-> NoProc])
  BY <1>1, <1>3 DEF Knows
<1> QED BY <1>1, <1>2, <1>3, <1>4, <1>5, BeginStep

-----------------------------------------------------------------------------
(* Locks *)

\* A transaction that takes a free lock it comes to, with what is left of its list.
LEMMA TakeOne ==
    ASSUME IInv, NEW p \in Procs, NEW l \in Locks, holder[l] = NoProc,
           holder' = [holder EXCEPT ![l] = p], tx' = [tx EXCEPT ![p].locks = Tail(@)],
           UNCHANGED rows, NEW rest \in Seq(Locks), Tail(tx[p].locks) = rest,
           NEW u, u = [tx[p] EXCEPT !.locks = rest],
           Shape(u), Holds(p, u, holder'), Knows(p, u, goal, contrib, holder')
    PROVE  IInv'
<1>1. tx \in [Procs -> Txs] /\ tx[p] \in Txs /\ holder \in [Locks -> Procs \cup {NoProc}]
  BY DEF IInv, Types
<1>2. u \in Txs /\ u.op = tx[p].op /\ u.goal = tx[p].goal
  BY <1>1 DEF Txs
<1>3. tx' = [tx EXCEPT ![p] = u]
  BY <1>1
<1>4. holder' \in [Locks -> Procs \cup {NoProc}]
      /\ \A q \in Procs \ {p} : \A k \in Locks : holder'[k] = q <=> holder[k] = q
  BY <1>1, Kinds4
<1>5. /\ UNCHANGED <<goal, contrib, told>>
      /\ paid' \in [Tips -> {"pending", "settled", "reversed"}]
      /\ \A i \in Tips : paid'[i] = "pending" => paid[i] = "pending"
  BY DEF rows, IInv, Types
<1>6. u.op = "create" => \A q \in Procs \ {p} : tx[q].op = "create" => tx[q].goal # u.goal
  BY <1>2 DEF IInv, Distinct
<1> QED BY <1>2, <1>3, <1>4, <1>5, <1>6, QuietStep

LEMMA LockStep ==
    ASSUME IInv, NEW p \in Procs, Lock(p)
    PROVE  IInv'
<1> DEFINE l == Head(tx[p].locks)
<1>1. CASE Stale(p, l)
  <2>1. tx' = [tx EXCEPT ![p] = NoTx] /\ Release(p) /\ UNCHANGED rows
    BY <1>1 DEF Lock
  <2>2. /\ UNCHANGED <<goal, contrib, told>>
        /\ paid' \in [Tips -> {"pending", "settled", "reversed"}]
        /\ \A i \in Tips : paid'[i] = "pending" => paid[i] = "pending"
    BY <2>1 DEF rows, IInv, Types
  <2> QED BY <2>1, <2>2, EndStep
<1>2. CASE ~Stale(p, l)
  <2>0. PICK t \in Txs : t = tx[p]
    BY DEF IInv, Types
  <2>1. /\ t.op # "none" /\ t.locks # <<>> /\ holder[l] = NoProc /\ l = Head(t.locks)
        /\ l = Stream /\ t.op = "create" => t.seen = 1
        /\ tx' = [tx EXCEPT ![p].locks = Tail(@)] /\ holder' = [holder EXCEPT ![l] = p]
        /\ UNCHANGED rows
    BY <1>2, <2>0 DEF Lock
  <2>2. Shape(t) /\ Holds(p, t, holder) /\ Knows(p, t, goal, contrib, holder)
    BY <2>0 DEF IInv, TxOK
  <2>3. holder \in [Locks -> Procs \cup {NoProc}] /\ NoProc # p
    BY Kinds4 DEF IInv, Types
  <2>4. t.tip \in Locks /\ (t.goal # NoGoal => t.goal \in GoalIds) /\ t.op \in
           {"none", "settle", "reverse", "create", "edit", "close"}
    BY Kinds4 DEF Txs
  <2> DEFINE Rest(k) == [t EXCEPT !.locks = k]
  <2>5. ASSUME NEW k \in Seq(Locks)
        PROVE  /\ Rest(k).op = t.op /\ Rest(k).tip = t.tip /\ Rest(k).goal = t.goal
               /\ Rest(k).what = t.what /\ Rest(k).seen = t.seen /\ Rest(k).locks = k
               /\ Rest(k).goals = t.goals /\ Rest(k).tips = t.tips
    BY DEF Txs
  <2>6. CASE t.op \in {"settle", "reverse"} /\ t.tip \in Tips
             /\ \/ t.goal = NoGoal /\ t.locks = <<t.tip, Stream>>
                \/ t.goal # NoGoal /\ t.locks = <<t.tip, t.goal, Stream>>
    <3> DEFINE k == IF t.goal = NoGoal THEN <<Stream>> ELSE <<t.goal, Stream>>
               u == Rest(k)
    <3>1. l = t.tip /\ Tail(t.locks) = k /\ k \in Seq(Locks)
      <4>1. CASE t.goal = NoGoal
        <5>1. t.locks = <<t.tip, Stream>> /\ k = <<Stream>>
          BY <2>6, <4>1
        <5> QED BY <2>1, <5>1, Lists, ListTypes, Kinds4
      <4>2. CASE t.goal # NoGoal
        <5>1. t.locks = <<t.tip, t.goal, Stream>> /\ k = <<t.goal, Stream>> /\ t.goal \in Locks
          BY <2>4, <2>6, <4>2, Kinds4
        <5> QED BY <2>1, <5>1, Lists, ListTypes, Kinds4
      <4> QED BY <4>1, <4>2
    <3>2. /\ u.op = t.op /\ u.tip = t.tip /\ u.goal = t.goal /\ u.locks = k
          /\ u.goals = t.goals /\ u.tips = t.tips
      BY <2>5, <3>1
    <3>3. Shape(u)
      BY <2>2, <2>6, <3>2 DEF Shape
    <3>4. t.locks \notin {<<Stream>>, <<>>}
      <4>1. <<t.tip, Stream>> \notin {<<Stream>>, <<>>}
        BY Lists
      <4>2. <<t.tip, t.goal, Stream>> \notin {<<Stream>>, <<>>}
        BY Lists
      <4> QED BY <2>6, <4>1, <4>2
    <3>5. /\ \A m \in Locks : m # l => holder'[m] = holder[m]
          /\ holder'[l] = p
      BY <2>1, <2>3, <2>4, <3>1
    <3>6. /\ holder'[Stream] # p /\ holder'[Creator] # p /\ \A g \in GoalIds : holder'[g] # p
      BY <2>2, <2>6, <3>1, <3>4, <3>5, Kinds4 DEF Holds
    <3> HIDE DEF Rest
    <3>7. t.goal # NoGoal => k \notin {<<Stream>>, <<>>}
      BY Lists
    <3> HIDE DEF k, u
    <3>8. Holds(p, u, holder')
      <4>1. u.locks \in {<<u.goal, Stream>>, <<Stream>>, <<>>}
        BY <3>2 DEF k
      <4> QED BY <2>6, <3>2, <3>6, <3>7, <4>1 DEF Holds
    <3>9. Knows(p, u, goal, contrib, holder')
      <4>1. t.goal # NoGoal => holder'[t.goal] # p
        BY <2>4, <3>6
      <4> QED BY <2>2, <2>6, <3>2, <4>1 DEF Knows, Past
    <3> QED BY <2>0, <2>1, <2>4, <3>1, <3>3, <3>8, <3>9, TakeOne DEF u, Rest
  <2>7. CASE t.op \in {"settle", "reverse", "edit", "close"} /\ t.goal # NoGoal
             /\ t.locks = <<t.goal, Stream>>
    <3> DEFINE k == <<Stream>>
               u == Rest(k)
    <3>1. l = t.goal /\ Tail(t.locks) = k /\ k \in Seq(Locks)
      BY <2>1, <2>4, <2>7, Lists, ListTypes, Kinds4
    <3>2. /\ u.op = t.op /\ u.tip = t.tip /\ u.goal = t.goal /\ u.locks = k
          /\ u.goals = t.goals /\ u.tips = t.tips /\ u.seen = t.seen
      BY <2>5, <3>1
    <3>3. Shape(u)
      BY <2>2, <2>7, <3>2 DEF Shape
    <3>4. t.locks \notin {<<Stream>>, <<>>}
      BY <2>7, Lists
    <3>5. /\ \A m \in Locks : m # l => holder'[m] = holder[m]
          /\ holder'[l] = p
      BY <2>1, <2>3, <2>4, <2>7, <3>1, Kinds4
    <3>6. /\ holder'[Stream] # p /\ holder'[Creator] # p
          /\ \A g \in GoalIds : holder'[g] = p => g = t.goal
      BY <2>2, <2>4, <2>7, <3>1, <3>4, <3>5, Kinds4 DEF Holds
    <3>7. \A i \in Tips : holder'[i] = p => t.op \in {"settle", "reverse"}
      BY <2>2, <2>4, <2>7, <3>1, <3>5, Kinds4 DEF Holds
    <3> HIDE DEF Rest
    <3> HIDE DEF u
    <3>8. Holds(p, u, holder')
      BY <2>7, <3>1, <3>2, <3>5, <3>6, <3>7 DEF Holds
    <3>9. t.op \in {"settle", "reverse"} => t.goals[t.goal] = goal[t.goal]
      BY <1>2, <2>0, <2>4, <2>7, <3>1 DEF Stale, Serializable
    <3>10. Knows(p, u, goal, contrib, holder')
      BY <2>2, <2>7, <3>2, <3>9 DEF Knows, Past, Saw
    <3> QED BY <2>0, <2>1, <2>4, <2>7, <3>1, <3>3, <3>8, <3>10, Kinds4, TakeOne DEF u, Rest
  <2>8. CASE t.locks = <<Stream>>
    <3> DEFINE k == << >>
               u == Rest(k)
    <3>1. l = Stream /\ Tail(t.locks) = k /\ k \in Seq(Locks)
      BY <2>1, <2>8, Lists, ListTypes, Kinds4
    <3>2. /\ u.op = t.op /\ u.tip = t.tip /\ u.goal = t.goal /\ u.locks = k
          /\ u.goals = t.goals /\ u.tips = t.tips /\ u.what = t.what /\ u.seen = t.seen
      BY <2>5, <3>1
    <3>3. Shape(u)
      BY <2>2, <2>8, <3>2, Lists DEF Shape
    <3>5. /\ \A m \in Locks : m # l => holder'[m] = holder[m]
          /\ holder'[l] = p
      BY <2>1, <2>3, <3>1, Kinds4
    <3>6. /\ holder'[Creator] = holder[Creator]
          /\ \A g \in GoalIds : holder'[g] = holder[g]
          /\ \A i \in Tips : holder'[i] = holder[i]
          /\ t.goal # NoGoal => holder'[t.goal] = holder[t.goal]
      BY <2>4, <3>1, <3>5, Kinds4
    <3> HIDE DEF Rest
    <3> HIDE DEF u
    <3>8. Holds(p, u, holder')
      BY <2>1, <2>2, <2>8, <3>2, <3>6 DEF Holds
    <3>10. Knows(p, u, goal, contrib, holder')
      BY <2>1, <2>2, <2>8, <3>1, <3>2, <3>6 DEF Knows, Past, Saw
    <3> QED BY <2>0, <2>1, <3>1, <3>3, <3>8, <3>10, Kinds4, TakeOne DEF u, Rest
  <2>9. CASE t.op = "create" /\ t.locks = <<Creator, Stream>>
    <3> DEFINE k == <<Stream>>
               u == Rest(k)
    <3>1. l = Creator /\ Tail(t.locks) = k /\ k \in Seq(Locks)
      BY <2>1, <2>9, Lists, ListTypes, Kinds4
    <3>2. /\ u.op = t.op /\ u.tip = t.tip /\ u.goal = t.goal /\ u.locks = k
          /\ u.goals = t.goals /\ u.tips = t.tips /\ u.what = t.what /\ u.seen = t.seen
      BY <2>5, <3>1
    <3>3. Shape(u)
      BY <2>2, <2>9, <3>2 DEF Shape
    <3>4. t.locks \notin {<<Stream>>, <<>>}
      BY <2>9, Lists
    <3>5. /\ \A m \in Locks : m # l => holder'[m] = holder[m]
          /\ holder'[l] = p
      BY <2>1, <2>3, <3>1, Kinds4
    <3>6. /\ holder'[Stream] # p
          /\ \A g \in GoalIds : holder'[g] # p
          /\ \A i \in Tips : holder'[i] # p
      BY <2>2, <2>9, <3>1, <3>4, <3>5, Kinds4 DEF Holds
    <3> HIDE DEF Rest
    <3> HIDE DEF u
    <3>8. Holds(p, u, holder')
      BY <2>9, <3>1, <3>2, <3>5, <3>6 DEF Holds
    <3>9. k # <<>>
      BY Lists
    <3>10. Knows(p, u, goal, contrib, holder')
      BY <2>2, <2>9, <3>2, <3>9 DEF Knows, Past
    <3> QED BY <2>0, <2>1, <3>1, <3>3, <3>8, <3>10, Kinds4, TakeOne DEF u, Rest
  <2> QED BY <2>1, <2>2, <2>4, <2>6, <2>7, <2>8, <2>9 DEF Shape
<1> QED BY <1>1, <1>2

\* create() counts under the creator's lock.
LEMMA CountActiveStep ==
    ASSUME IInv, NEW p \in Procs, CountActive(p)
    PROVE  IInv'
<1>1. /\ UNCHANGED <<goal, contrib, told>>
      /\ paid' \in [Tips -> {"pending", "settled", "reversed"}]
      /\ \A i \in Tips : paid'[i] = "pending" => paid[i] = "pending"
  BY DEF CountActive, rows, IInv, Types
<1>2. CASE Cardinality(Active(goal)) >= MaxActive
  BY <1>1, <1>2, EndStep DEF CountActive, End
<1>3. CASE ~(Cardinality(Active(goal)) >= MaxActive)
  <2> DEFINE u == [tx[p] EXCEPT !.seen = 1]
  <2>1. tx[p] \in Txs /\ holder \in [Locks -> Procs \cup {NoProc}]
    BY DEF IInv, Types
  <2>2. tx' = [tx EXCEPT ![p] = u] /\ holder' = holder
        /\ tx[p].op = "create" /\ tx[p].locks = <<Stream>>
    BY <1>3, <2>1 DEF CountActive, IInv, Types
  <2>3. /\ u \in Txs /\ u.op = tx[p].op /\ u.goal = tx[p].goal /\ u.locks = tx[p].locks
        /\ u.what = tx[p].what /\ u.seen = 1
    BY <2>1 DEF Txs
  <2> HIDE DEF u
  <2>4. Shape(tx[p]) /\ Holds(p, tx[p], holder) /\ Knows(p, tx[p], goal, contrib, holder)
    BY DEF IInv, TxOK
  <2>5. Shape(u) /\ Holds(p, u, holder')
    BY <2>2, <2>3, <2>4 DEF Shape, Holds
  <2>6. Cardinality(Active(goal)) < MaxActive
    BY <1>3, FS_CardinalityType, GoalsConstantsOK DEF IInv, Limited
  <2>7. Knows(p, u, goal, contrib, holder')
    BY <2>2, <2>3, <2>4, <2>6 DEF Knows
  <2>8. u.op = "create" => \A q \in Procs \ {p} : tx[q].op = "create" => tx[q].goal # u.goal
    BY <2>2, <2>3 DEF IInv, Distinct
  <2>9. holder' \in [Locks -> Procs \cup {NoProc}]
        /\ \A q \in Procs \ {p} : \A l \in Locks : holder'[l] = q <=> holder[l] = q
    BY <2>1, <2>2
  <2> QED BY <1>1, <2>2, <2>3, <2>5, <2>7, <2>8, <2>9, QuietStep
<1> QED BY <1>2, <1>3

-----------------------------------------------------------------------------
(* Commits *)

\* A goal that is changed has a new revision and no other goal's contributions.
Step(g, r, c) ==
    /\ r \in GoalRows /\ r.revision = goal[g].revision + 1 /\ r.status # "none"
    /\ goal' = [goal EXCEPT ![g] = r]
    /\ c \in [Tips -> Contributions] /\ contrib' = c
    /\ \A i \in Tips : c[i] # contrib[i] =>
          c[i].goal = g /\ contrib[i].goal \in {NoGoal, g} /\ c[i].reversed <= c[i].amount

\* The other goals keep their contributions.
LEMMA OthersAgree ==
    ASSUME IInv, NEW g \in GoalIds, NEW r, NEW c, Step(g, r, c), NEW h \in GoalIds, h # g
    PROVE  /\ goal'[h] = goal[h] /\ Agree(contrib', contrib, h)
           /\ Total(contrib', h) = Total(contrib, h)
<1>1. goal'[h] = goal[h] /\ contrib' \in [Tips -> Contributions]
      /\ contrib \in [Tips -> Contributions]
  BY DEF Step, IInv, Types
<1>2. Agree(contrib', contrib, h)
  <2> SUFFICES ASSUME NEW i \in Tips, contrib'[i].goal = h \/ contrib[i].goal = h
               PROVE  contrib'[i] = contrib[i]
    BY DEF Agree
  <2>1. contrib'[i] # contrib[i] => contrib'[i].goal = g /\ contrib[i].goal \in {NoGoal, g}
    BY DEF Step
  <2> QED BY <2>1, Kinds4
<1> QED BY <1>1, <1>2, AgreeTotal

\* What the others have read is of the past still.
LEMMA StillPast ==
    ASSUME IInv, NEW g \in GoalIds, NEW r, NEW c, Step(g, r, c),
           NEW t \in Txs, Past(t, goal, contrib)
    PROVE  Past(t, goal', contrib')
<1>1. goal \in [GoalIds -> GoalRows] /\ t.goals \in [GoalIds -> GoalRows]
  BY DEF IInv, Types, Txs
<1> SUFFICES ASSUME NEW h \in GoalIds
             PROVE  /\ t.goals[h].revision <= goal'[h].revision
                    /\ t.goals[h] = goal'[h] => Agree(t.tips, contrib', h)
  BY DEF Past
<1>2. t.goals[h].revision <= goal[h].revision
      /\ (t.goals[h] = goal[h] => Agree(t.tips, contrib, h))
  BY DEF Past
<1>3. t.goals[h].revision \in Nat /\ goal[h].revision \in Nat
  BY <1>1 DEF GoalRows
<1>4. CASE h = g
  <2>1. goal'[h].revision = goal[h].revision + 1
    BY <1>1, <1>4 DEF Step
  <2>2. t.goals[h] # goal'[h]
    BY <1>2, <1>3, <2>1
  <2> QED BY <1>2, <1>3, <2>1, <2>2
<1>5. CASE h # g
  <2>1. goal'[h] = goal[h] /\ Agree(contrib', contrib, h)
    BY <1>5, OthersAgree
  <2>2. t.goals[h] = goal'[h] => Agree(t.tips, contrib', h)
    BY <1>2, <2>1 DEF Agree
  <2> QED BY <1>2, <2>1, <2>2
<1> QED BY <1>4, <1>5

\* Who changes a goal holds it, or creates it.
Acts(p, g, r) ==
    \/ /\ goal[g].status # "none" /\ holder[g] = p
       /\ r.status = "active" => goal[g].status = "active"
    \/ tx[p].op = "create" /\ tx[p].goal = g /\ tx[p].locks = <<>>

\* The limit holds after a change.
LEMMA LimitKept ==
    ASSUME IInv, NEW p \in Procs, NEW g \in GoalIds, NEW r, NEW c, Step(g, r, c), Acts(p, g, r)
    PROVE  Limited'
<1>1. goal \in [GoalIds -> GoalRows] /\ goal' = [goal EXCEPT ![g] = r]
  BY DEF IInv, Types, Step
<1>2. IsFiniteSet(Active(goal)) /\ Cardinality(Active(goal)) \in Nat
      /\ Cardinality(Active(goal)) <= MaxActive
  BY FS_CardinalityType DEF IInv, Limited
<1>3. CASE goal[g].status # "none" /\ (r.status = "active" => goal[g].status = "active")
  <2>1. Active(goal') \in SUBSET Active(goal)
    BY <1>1, <1>3 DEF Active
  <2>2. IsFiniteSet(Active(goal')) /\ Cardinality(Active(goal')) <= Cardinality(Active(goal))
    BY <1>2, <2>1, FS_Subset
  <2>3. Cardinality(Active(goal')) \in Nat
    BY <2>2, FS_CardinalityType
  <2> QED BY <1>2, <2>2, <2>3, GoalsConstantsOK DEF Limited
<1>4. CASE tx[p].op = "create" /\ tx[p].goal = g /\ tx[p].locks = <<>>
  <2>1. Cardinality(Active(goal)) < MaxActive
    BY <1>4 DEF IInv, TxOK, Knows
  <2> DEFINE more == Active(goal) \cup {g}
  <2>2. IsFiniteSet(more) /\ Cardinality(more) <= Cardinality(Active(goal)) + 1
    BY <1>2, FS_AddElement
  <2>3. Active(goal') \in SUBSET more
    BY <1>1 DEF Active
  <2> HIDE DEF more
  <2>4. IsFiniteSet(Active(goal')) /\ Cardinality(Active(goal')) <= Cardinality(more)
    BY <2>2, <2>3, FS_Subset
  <2>5. Cardinality(Active(goal')) \in Nat /\ Cardinality(more) \in Nat
    BY <2>2, <2>4, FS_CardinalityType
  <2> QED BY <1>2, <2>1, <2>2, <2>4, <2>5, GoalsConstantsOK DEF Limited
<1> QED BY <1>3, <1>4 DEF Acts

\* What another transaction knows holds after a change.
LEMMA OthersKnow ==
    ASSUME IInv, NEW p \in Procs, NEW g \in GoalIds, NEW r, NEW c, Step(g, r, c), Acts(p, g, r),
           Release(p), NEW q \in Procs, q # p
    PROVE  Holds(q, tx[q], holder') /\ Knows(q, tx[q], goal', contrib', holder')
<1>0. PICK t \in Txs : t = tx[q]
  BY DEF IInv, Types
<1>1. /\ holder' \in [Locks -> Procs \cup {NoProc}]
      /\ \A l \in Locks : holder'[l] = q <=> holder[l] = q
  BY ReleaseFacts
<1>2. Shape(t) /\ Holds(q, t, holder) /\ Knows(q, t, goal, contrib, holder)
  BY <1>0 DEF IInv, TxOK
<1>3. Holds(q, t, holder') /\ Knows(q, t, goal, contrib, holder')
  BY <1>1, <1>2, SameTx
<1>4. goal \in [GoalIds -> GoalRows] /\ goal' = [goal EXCEPT ![g] = r]
      /\ r.status # "none"
  BY DEF IInv, Types, Step
<1>5. /\ t.op \in {"settle", "reverse", "edit", "close"} =>
            goal[t.goal].status # "none" \/ t.goal = NoGoal
      /\ t.op = "create" => goal[t.goal].status = "none"
      /\ t.goal \in GoalIds \cup {NoGoal}
  BY <1>2 DEF Knows, Txs
<1>6. t.op \in {"settle", "reverse"} => Past(t, goal', contrib')
  <2>1. t.op \in {"settle", "reverse"} => Past(t, goal, contrib)
    BY <1>2 DEF Knows
  <2> QED BY <2>1, StillPast
<1>7. t.op \in {"settle", "reverse"} /\ t.goal # NoGoal /\ holder'[t.goal] = q =>
          t.goals[t.goal] = goal'[t.goal]
  <2> SUFFICES ASSUME t.op \in {"settle", "reverse"}, t.goal # NoGoal, holder'[t.goal] = q
               PROVE  t.goals[t.goal] = goal'[t.goal]
    OBVIOUS
  <2>1. t.goals[t.goal] = goal[t.goal] /\ t.goal \in GoalIds
    BY <1>3, <1>5 DEF Knows
  <2>2. holder[t.goal] = q
    BY <1>1, <2>1, Kinds4
  <2>3. t.goal # g
    <3>1. CASE holder[g] = p
      BY <2>2, <3>1
    <3>2. CASE tx[p].op = "create" /\ tx[p].goal = g
      <4>1. goal[g].status = "none"
        BY <3>2 DEF IInv, TxOK, Knows
      <4> QED BY <1>5, <2>1, <4>1, Kinds4
    <3> QED BY <3>1, <3>2 DEF Acts
  <2> QED BY <1>4, <2>1, <2>3
<1>8. t.op = "create" =>
          /\ goal'[t.goal].status = "none"
          /\ t.seen = 1 => Cardinality(Active(goal')) < MaxActive
  <2> SUFFICES ASSUME t.op = "create"
               PROVE  /\ goal'[t.goal].status = "none"
                      /\ t.seen = 1 => Cardinality(Active(goal')) < MaxActive
    OBVIOUS
  <2>1. goal[t.goal].status = "none" /\ t.goal \in GoalIds
    BY <1>2, <1>5 DEF Shape
  <2>2. t.goal # g
    <3>1. CASE goal[g].status # "none"
      BY <2>1, <3>1
    <3>2. CASE tx[p].op = "create" /\ tx[p].goal = g
      BY <1>0, <3>2 DEF IInv, Distinct
    <3> QED BY <3>1, <3>2 DEF Acts
  <2>3. ASSUME t.seen = 1 PROVE Cardinality(Active(goal')) < MaxActive
    <3>1. t.locks \in {<<Stream>>, <<>>} /\ Cardinality(Active(goal)) < MaxActive
      BY <1>2, <2>3 DEF Knows
    <3>2. holder[Creator] = q
      BY <1>2, <3>1 DEF Holds
    <3>3. ~(tx[p].op = "create" /\ tx[p].locks = <<>>)
      <4>1. tx[p].op = "create" /\ tx[p].locks = <<>> => holder[Creator] = p
        BY DEF IInv, TxOK, Holds
      <4> QED BY <3>2, <4>1
    <3>4. Active(goal') \in SUBSET Active(goal)
      BY <1>4, <3>3 DEF Acts, Active
    <3>5. IsFiniteSet(Active(goal)) /\ Cardinality(Active(goal)) \in Nat
      BY FS_CardinalityType DEF IInv, Limited
    <3>6. IsFiniteSet(Active(goal')) /\ Cardinality(Active(goal')) <= Cardinality(Active(goal))
      BY <3>4, <3>5, FS_Subset
    <3>7. Cardinality(Active(goal')) \in Nat
      BY <3>6, FS_CardinalityType
    <3> QED BY <3>1, <3>5, <3>6, <3>7, GoalsConstantsOK
  <2> QED BY <1>4, <2>1, <2>2, <2>3
<1>9. t.op \in {"settle", "reverse", "edit", "close"} /\ t.goal # NoGoal =>
          goal'[t.goal].status # "none"
  BY <1>4, <1>5
<1>10. t.op = "edit" /\ t.seen # 0 => Saw(t, goal')
  <2> SUFFICES ASSUME t.op = "edit", t.seen # 0
               PROVE  Saw(t, goal')
    OBVIOUS
  <2>1. Saw(t, goal) /\ t.goal \in GoalIds
    BY <1>2, <1>5 DEF Knows, Shape
  <2>2. t.seen \in Nat /\ goal[t.goal].revision \in Nat
    BY <1>4, <2>1 DEF Txs, GoalRows
  <2>3. CASE t.goal = g
    BY <1>4, <2>1, <2>2, <2>3 DEF Saw, Step
  <2>4. CASE t.goal # g
    BY <1>4, <2>1, <2>4 DEF Saw
  <2> QED BY <2>3, <2>4
<1>11. Knows(q, t, goal', contrib', holder')
  BY <1>3, <1>6, <1>7, <1>8, <1>9, <1>10 DEF Knows
<1> QED BY <1>0, <1>3, <1>11

\* The goal is marked and announced as it becomes; nothing pending gives it anything.
Announces(g, r, c) ==
    /\ paid' \in [Tips -> {"pending", "settled", "reversed"}]
    /\ \A i \in Tips : paid'[i] = "pending" => paid[i] = "pending" /\ c[i] = contrib[i]
    /\ r.reached <=> Total(c, g) >= r.target
    /\ told' = [told EXCEPT ![g] = View(r, Total(c, g))]

\* A commit that changes a goal preserves the invariant.
LEMMA CommitStep ==
    ASSUME IInv, NEW p \in Procs, NEW g \in GoalIds, NEW r, NEW c, Step(g, r, c), Acts(p, g, r),
           End(p), Announces(g, r, c)
    PROVE  IInv'
<1> USE DEF Announces
<1>1. /\ tx' = [tx EXCEPT ![p] = NoTx] /\ Release(p) /\ tx \in [Procs -> Txs]
      /\ NoTx \in Txs /\ NoTx.op = "none"
  BY NoTxFacts DEF End, IInv, Types
<1>2. /\ holder' \in [Locks -> Procs \cup {NoProc}]
      /\ \A l \in Locks : holder'[l] # p
  BY <1>1, ReleaseFacts
<1>3. /\ goal \in [GoalIds -> GoalRows] /\ goal' = [goal EXCEPT ![g] = r] /\ r \in GoalRows
      /\ contrib' = c /\ c \in [Tips -> Contributions] /\ r.status # "none"
  BY DEF IInv, Types, Step
<1>4. \A h \in GoalIds : h # g => goal'[h] = goal[h] /\ Total(contrib', h) = Total(contrib, h)
  BY OthersAgree
<1>5. Types'
  BY <1>1, <1>2, <1>3 DEF Types
<1>6. Told'
  <2>1. told = [h \in GoalIds |-> View(goal[h], Total(contrib, h))]
    BY DEF IInv, Told
  <2>2. \A h \in GoalIds : told'[h] = View(goal'[h], Total(contrib', h))
    BY <1>3, <1>4, <2>1
  <2>3. told' = [h \in GoalIds |-> told'[h]]
    BY <2>1
  <2> QED BY <2>2, <2>3 DEF Told
<1>7. Contributed'
  <2> SUFFICES ASSUME NEW i \in Tips
               PROVE  /\ c[i].reversed <= c[i].amount
                      /\ paid'[i] = "pending" => c[i].goal = NoGoal
                      /\ \A h \in GoalIds : c[i].goal = h => goal'[h].status # "none"
    BY <1>3 DEF Contributed
  <2>1. /\ contrib[i].reversed <= contrib[i].amount
        /\ paid[i] = "pending" => contrib[i].goal = NoGoal
        /\ \A h \in GoalIds : contrib[i].goal = h => goal[h].status # "none"
    BY DEF IInv, Contributed
  <2>2. \A h \in GoalIds : goal[h].status # "none" => goal'[h].status # "none"
    BY <1>3
  <2>3. goal'[g].status # "none"
    BY <1>3
  <2>4. CASE c[i] = contrib[i]
    BY <2>1, <2>2, <2>4
  <2>5. CASE c[i] # contrib[i]
    <3>1. c[i].goal = g /\ c[i].reversed <= c[i].amount /\ paid'[i] # "pending"
      BY <2>5 DEF Step
    <3> QED BY <2>3, <3>1
  <2> QED BY <2>4, <2>5
<1>8. ReachedIsTrue'
  <2> SUFFICES ASSUME NEW h \in GoalIds, goal'[h].status # "none"
               PROVE  goal'[h].reached <=> Total(contrib', h) >= goal'[h].target
    BY DEF ReachedIsTrue
  <2>1. CASE h = g
    BY <1>3, <2>1
  <2>2. CASE h # g
    BY <1>4, <2>2 DEF IInv, ReachedIsTrue
  <2> QED BY <2>1, <2>2
<1>9. Limited'
  BY LimitKept
<1>10. Distinct'
  BY <1>1 DEF IInv, Distinct
<1>11. ASSUME NEW q \in Procs PROVE TxOK(q)'
  <2>1. CASE q = p
    BY <1>1, <1>2, <2>1, Ended DEF TxOK
  <2>2. CASE q # p
    <3>1. tx'[q] = tx[q]
      BY <1>1, <2>2
    <3>2. Shape(tx[q]) /\ Holds(q, tx[q], holder') /\ Knows(q, tx[q], goal', contrib', holder')
      BY <1>1, <2>2, OthersKnow DEF IInv, TxOK
    <3> QED BY <3>1, <3>2 DEF TxOK
  <2> QED BY <2>1, <2>2
<1> QED BY <1>5, <1>6, <1>7, <1>8, <1>9, <1>10, <1>11 DEF IInv

\* A transaction with all its locks holds its goal and knows its row.
LEMMA Holding ==
    ASSUME IInv, NEW p \in Procs, tx[p].locks = <<>>, tx[p].goal # NoGoal,
           tx[p].op \in {"settle", "reverse", "edit", "close"}
    PROVE  LET g == tx[p].goal
           IN  /\ g \in GoalIds /\ goal[g] \in GoalRows /\ goal[g].status # "none"
               /\ holder[g] = p
               /\ tx[p].op \in {"settle", "reverse"} =>
                     /\ Agree(tx[p].tips, contrib, g)
                     /\ tx[p].tips \in [Tips -> Contributions] /\ tx[p].tip \in Tips
<1>1. PICK t \in Txs : t = tx[p]
  BY DEF IInv, Types
<1>2. Shape(t) /\ Holds(p, t, holder) /\ Knows(p, t, goal, contrib, holder)
  BY <1>1 DEF IInv, TxOK
<1>3. t.goal \in GoalIds /\ t.tips \in [Tips -> Contributions]
  BY <1>1 DEF Txs
<1>4. goal[t.goal] \in GoalRows
  BY <1>3 DEF IInv, Types
<1>5. holder[t.goal] = p
  BY <1>1, <1>2 DEF Holds
<1>6. goal[t.goal].status # "none"
  BY <1>1, <1>2 DEF Knows
<1>7. t.op \in {"settle", "reverse"} => Agree(t.tips, contrib, t.goal) /\ t.tip \in Tips
  BY <1>1, <1>2, <1>3, <1>5 DEF Knows, Past, Shape
<1> QED BY <1>1, <1>3, <1>4, <1>5, <1>6, <1>7

LEMMA MarkedRow ==
    ASSUME NEW row \in GoalRows, NEW total, NEW n \in Nat
    PROVE  LET r == [MarkReached(row, total) EXCEPT !.revision = n]
           IN  /\ r \in GoalRows /\ r.revision = n /\ r.status = row.status
               /\ r.target = row.target /\ (r.reached <=> total >= r.target)
<1> DEFINE reached == total >= row.target
           m == [row EXCEPT !.reached = reached]
           r == [m EXCEPT !.revision = n]
<1>1. reached \in BOOLEAN
  BY Compared
<1> HIDE DEF reached
<1>2. m \in GoalRows /\ m.reached = reached /\ m.status = row.status /\ m.target = row.target
  BY <1>1 DEF GoalRows
<1>3. m = MarkReached(row, total)
  BY DEF MarkReached, reached
<1> HIDE DEF m
<1>4. /\ r \in GoalRows /\ r.revision = n /\ r.status = m.status /\ r.target = m.target
      /\ r.reached = m.reached
  BY <1>2 DEF GoalRows
<1> HIDE DEF r
<1>5. r = [MarkReached(row, total) EXCEPT !.revision = n]
  BY <1>3 DEF r
<1>6. r.reached <=> total >= r.target
  BY <1>2, <1>4 DEF reached
<1> QED BY <1>2, <1>4, <1>5, <1>6

LEMMA CommitSettleStep ==
    ASSUME IInv, NEW p \in Procs, CommitSettle(p)
    PROVE  IInv'
<1>0. PICK t \in Txs : t = tx[p]
  BY DEF IInv, Types
<1>1. t.op = "settle" /\ t.locks = <<>> /\ End(p)
  BY <1>0 DEF CommitSettle, Ready
<1>2. t.tip \in Tips
  BY <1>0, <1>1 DEF IInv, TxOK, Shape
<1>3. tx' = [tx EXCEPT ![p] = NoTx] /\ Release(p)
  BY <1>1 DEF End
<1>4. CASE paid[t.tip] # "pending"
  <2>1. /\ UNCHANGED <<goal, contrib, told>>
        /\ paid' \in [Tips -> {"pending", "settled", "reversed"}]
        /\ \A i \in Tips : paid'[i] = "pending" => paid[i] = "pending"
    BY <1>0, <1>4 DEF CommitSettle, rows, IInv, Types
  <2> QED BY <1>3, <2>1, EndStep
<1>5. CASE paid[t.tip] = "pending"
  <2>1. paid' = [paid EXCEPT ![t.tip] = "settled"]
    BY <1>0, <1>5 DEF CommitSettle
  <2>2. /\ paid' \in [Tips -> {"pending", "settled", "reversed"}]
        /\ \A i \in Tips : paid'[i] = "pending" => paid[i] = "pending" /\ i # t.tip
    BY <1>2, <2>1 DEF IInv, Types
  <2>3. CASE t.goal = NoGoal \/ goal[t.goal].status # "active"
    <3>1. UNCHANGED <<goal, contrib, told>>
      BY <1>0, <1>5, <2>3 DEF CommitSettle
    <3> QED BY <1>3, <2>2, <3>1, EndStep
  <2>4. CASE t.goal # NoGoal /\ goal[t.goal].status = "active"
    <3>0. PICK g, i : g = t.goal /\ i = t.tip
      OBVIOUS
    <3>1. /\ g \in GoalIds /\ goal[g] \in GoalRows /\ goal[g].status = "active" /\ holder[g] = p
          /\ Agree(t.tips, contrib, g) /\ t.tips \in [Tips -> Contributions] /\ i \in Tips
      BY <1>0, <1>1, <1>2, <2>4, <3>0, Holding
    <3> DEFINE n       == [goal |-> g, amount |-> t.what, reversed |-> 0]
               counted == [t.tips EXCEPT ![i] = n]
               total   == Total(counted, g)
               c       == [contrib EXCEPT ![i] = n]
               r       == [MarkReached(goal[g], total) EXCEPT !.revision = goal[g].revision + 1]
    <3>2. n \in Contributions /\ n.goal = g /\ n.reversed <= n.amount
      BY <3>1 DEF Txs, Contributions
    <3> HIDE DEF n
    <3>3. contrib \in [Tips -> Contributions] /\ c \in [Tips -> Contributions]
          /\ counted \in [Tips -> Contributions] /\ counted[i] = n
          /\ contrib[i].goal = NoGoal
      BY <1>5, <3>0, <3>1, <3>2 DEF IInv, Types, Contributed
    <3>4. Agree(counted, c, g)
      BY <3>1, <3>2, <3>3 DEF Agree
    <3> HIDE DEF counted, c
    <3>5. Total(c, g) = total
      BY <3>1, <3>3, <3>4, AgreeTotal
    <3> HIDE DEF total
    <3>6. /\ contrib' = [contrib EXCEPT ![i] = counted[i]]
          /\ Changed(g, MarkReached(goal[g], total), total)
      BY <1>0, <1>5, <2>4, <3>0 DEF CommitSettle, total, counted, n
    <3>7. goal[g].revision + 1 \in Nat
      BY <3>1 DEF GoalRows
    <3>8. /\ r \in GoalRows /\ r.revision = goal[g].revision + 1 /\ r.status = goal[g].status
          /\ (r.reached <=> total >= r.target)
      BY <3>1, <3>7, MarkedRow
    <3>9. goal' = [goal EXCEPT ![g] = r] /\ told' = [told EXCEPT ![g] = View(r, total)]
      BY <3>6 DEF Changed
    <3> HIDE DEF r
    <3>10. contrib' = c /\ \A j \in Tips : j # i => c[j] = contrib[j]
      BY <3>1, <3>3, <3>6 DEF c
    <3>11. Step(g, r, c)
      <4>1. \A j \in Tips : c[j] # contrib[j] =>
              c[j].goal = g /\ contrib[j].goal \in {NoGoal, g} /\ c[j].reversed <= c[j].amount
        BY <3>1, <3>2, <3>3, <3>10 DEF c
      <4> QED BY <3>1, <3>3, <3>8, <3>9, <3>10, <4>1 DEF Step
    <3>12. Acts(p, g, r)
      BY <3>1, <3>8 DEF Acts
    <3>13. \A j \in Tips : paid'[j] = "pending" => paid[j] = "pending" /\ c[j] = contrib[j]
      BY <2>2, <3>0, <3>10
    <3>14. Announces(g, r, c)
      <4>1. r.reached <=> Total(c, g) >= r.target
        BY <3>5, <3>8
      <4>2. told' = [told EXCEPT ![g] = View(r, Total(c, g))]
        BY <3>5, <3>9
      <4> QED BY <2>2, <3>13, <4>1, <4>2 DEF Announces
    <3> QED BY <1>1, <3>1, <3>11, <3>12, <3>14, CommitStep
  <2> QED BY <2>3, <2>4
<1> QED BY <1>4, <1>5

LEMMA CommitReverseStep ==
    ASSUME IInv, NEW p \in Procs, CommitReverse(p)
    PROVE  IInv'
<1>0. PICK t \in Txs : t = tx[p]
  BY DEF IInv, Types
<1>1. t.op = "reverse" /\ t.locks = <<>> /\ End(p)
  BY <1>0 DEF CommitReverse, Ready
<1>2. Shape(t) /\ Knows(p, t, goal, contrib, holder)
  BY <1>0 DEF IInv, TxOK
<1>3. PICK g, i : g = t.goal /\ i = t.tip
  OBVIOUS
<1>4. i \in Tips /\ t.goal # NoGoal /\ t.tips[i].goal = g
  BY <1>1, <1>2, <1>3 DEF Shape, Knows
<1>5. /\ g \in GoalIds /\ goal[g] \in GoalRows /\ goal[g].status # "none" /\ holder[g] = p
      /\ Agree(t.tips, contrib, g) /\ t.tips \in [Tips -> Contributions]
  BY <1>0, <1>1, <1>3, <1>4, Holding
<1>6. tx' = [tx EXCEPT ![p] = NoTx] /\ Release(p)
  BY <1>1 DEF End
<1>7. PICK row \in Contributions : row = contrib[i] /\ row = t.tips[i]
  BY <1>4, <1>5 DEF Agree, IInv, Types
<1>8. row.goal = g /\ row.amount \in Nat /\ row.reversed \in Nat /\ row.reversed <= row.amount
  BY <1>4, <1>7 DEF Contributions, IInv, Contributed
<1> DEFINE left == row.amount - row.reversed
           take == IF t.what <= left THEN t.what ELSE left
<1>9. take \in Nat /\ row.reversed + take \in Nat /\ row.reversed + take <= row.amount
  BY <1>8 DEF Txs
<1>10. QED
  <2>1. paid' = [paid EXCEPT ![i] = "reversed"]
    BY <1>0, <1>3 DEF CommitReverse
  <2>2. /\ paid' \in [Tips -> {"pending", "settled", "reversed"}]
        /\ \A j \in Tips : paid'[j] = "pending" => paid[j] = "pending" /\ j # i
    BY <1>4, <2>1 DEF IInv, Types
  <2>3. CASE take = 0
    <3>1. UNCHANGED <<goal, contrib, told>>
      BY <1>0, <1>3, <1>7, <2>3 DEF CommitReverse
    <3> QED BY <1>6, <2>2, <3>1, EndStep
  <2>4. CASE take # 0
    <3> DEFINE n     == [row EXCEPT !.reversed = row.reversed + take]
               after == [t.tips EXCEPT ![i] = n]
               total == Total(after, g)
               c     == [contrib EXCEPT ![i] = n]
               r     == [MarkReached(goal[g], total) EXCEPT !.revision = goal[g].revision + 1]
    <3>0. [t.tips EXCEPT ![i].reversed = @ + take] = after
      BY <1>4, <1>5, <1>7
    <3>1. /\ contrib' = [contrib EXCEPT ![i] = after[i]]
          /\ Changed(g, MarkReached(goal[g], total), total)
      BY <1>0, <1>3, <1>7, <2>4, <3>0 DEF CommitReverse
    <3> HIDE DEF left, take
    <3>2. n \in Contributions /\ n.goal = g /\ n.reversed <= n.amount
      BY <1>8, <1>9 DEF Contributions
    <3> HIDE DEF n
    <3>3. contrib \in [Tips -> Contributions] /\ c \in [Tips -> Contributions]
          /\ after \in [Tips -> Contributions] /\ after[i] = n
      BY <1>4, <1>5, <3>2 DEF IInv, Types
    <3>4. Agree(after, c, g)
      BY <1>4, <1>5, <3>2, <3>3 DEF Agree
    <3>5. contrib' = c /\ c[i] = n /\ \A j \in Tips : j # i => c[j] = contrib[j]
      BY <1>4, <3>1, <3>3
    <3> HIDE DEF after, c
    <3>6. Total(c, g) = total
      BY <1>5, <3>3, <3>4, AgreeTotal
    <3> HIDE DEF total
    <3>7. goal[g].revision + 1 \in Nat
      BY <1>5 DEF GoalRows
    <3>8. /\ r \in GoalRows /\ r.revision = goal[g].revision + 1 /\ r.status = goal[g].status
          /\ (r.reached <=> total >= r.target)
      BY <1>5, <3>7, MarkedRow
    <3>9. goal' = [goal EXCEPT ![g] = r] /\ told' = [told EXCEPT ![g] = View(r, total)]
      BY <3>1 DEF Changed
    <3> HIDE DEF r
    <3>10. Step(g, r, c)
      <4>1. \A j \in Tips : c[j] # contrib[j] =>
              c[j].goal = g /\ contrib[j].goal \in {NoGoal, g} /\ c[j].reversed <= c[j].amount
        BY <1>7, <1>8, <3>2, <3>5
      <4> QED BY <1>5, <3>3, <3>5, <3>8, <3>9, <4>1 DEF Step
    <3>11. Acts(p, g, r)
      BY <1>5, <3>8 DEF Acts
    <3>12. \A j \in Tips : paid'[j] = "pending" => paid[j] = "pending" /\ c[j] = contrib[j]
      BY <2>2, <3>5
    <3>13. Announces(g, r, c)
      <4>1. r.reached <=> Total(c, g) >= r.target
        BY <3>6, <3>8
      <4>2. told' = [told EXCEPT ![g] = View(r, Total(c, g))]
        BY <3>6, <3>9
      <4> QED BY <2>2, <3>12, <4>1, <4>2 DEF Announces
    <3> QED BY <1>1, <1>5, <3>10, <3>11, <3>13, CommitStep
  <2> QED BY <2>3, <2>4

LEMMA CommitCreateStep ==
    ASSUME IInv, NEW p \in Procs, CommitCreate(p)
    PROVE  IInv'
<1>0. PICK t \in Txs : t = tx[p]
  BY DEF IInv, Types
<1>1. /\ t.op = "create" /\ t.locks = <<>> /\ End(p) /\ contrib' = contrib /\ paid' = paid
      /\ Changed(t.goal, [NoRow EXCEPT !.status = "active", !.target = t.what], 0)
  BY <1>0 DEF CommitCreate, Ready
<1>2. PICK g \in GoalIds : g = t.goal
  BY <1>0, <1>1 DEF IInv, TxOK, Shape, Txs
<1>3. goal[g].status = "none" /\ t.what \in Nat /\ t.what # 0 /\ goal[g].revision + 1 \in Nat
  <2>1. Knows(p, t, goal, contrib, holder) /\ goal[g] \in GoalRows
    BY <1>0 DEF IInv, TxOK, Types
  <2>2. goal[g].status = "none" /\ t.what # 0
    BY <1>1, <1>2, <2>1 DEF Knows
  <2> QED BY <2>1, <2>2 DEF Txs, GoalRows
<1>4. PICK c \in [Tips -> Contributions] : c = contrib
  BY DEF IInv, Types
<1>5. Total(c, g) = 0
  <2>1. \A i \in Tips : contrib[i].goal # g
    BY <1>3 DEF IInv, Contributed
  <2> QED BY <1>4, <2>1 DEF Total
<1> DEFINE m == [NoRow EXCEPT !.status = "active", !.target = t.what]
           r == [m EXCEPT !.revision = goal[g].revision + 1]
<1>6. m \in GoalRows /\ m.reached = FALSE /\ m.target = t.what /\ m.status = "active"
  BY <1>3 DEF NoRow, GoalRows
<1> HIDE DEF m
<1>7. /\ r \in GoalRows /\ r.revision = goal[g].revision + 1 /\ r.status = "active"
      /\ r.reached = FALSE /\ r.target = t.what
  BY <1>3, <1>6 DEF GoalRows
<1>8. goal' = [goal EXCEPT ![g] = r] /\ told' = [told EXCEPT ![g] = View(r, 0)]
  BY <1>1, <1>2 DEF Changed, m
<1> HIDE DEF r
<1>9. Step(g, r, c)
  BY <1>1, <1>4, <1>7, <1>8 DEF Step
<1>10. Acts(p, g, r)
  BY <1>0, <1>1, <1>2 DEF Acts
<1>11. Announces(g, r, c)
  <2>1. paid' \in [Tips -> {"pending", "settled", "reversed"}]
        /\ \A i \in Tips : paid'[i] = "pending" => paid[i] = "pending" /\ c[i] = contrib[i]
    BY <1>1, <1>4 DEF IInv, Types
  <2>2. ~(0 >= t.what)
    BY <1>3
  <2>3. r.reached <=> Total(c, g) >= r.target
    BY <1>5, <1>7, <2>2
  <2>4. told' = [told EXCEPT ![g] = View(r, Total(c, g))]
    BY <1>5, <1>8
  <2> QED BY <2>1, <2>3, <2>4 DEF Announces
<1> QED BY <1>1, <1>9, <1>10, <1>11, CommitStep

LEMMA CommitEditStep ==
    ASSUME IInv, NEW p \in Procs, CommitEdit(p)
    PROVE  IInv'
<1>0. PICK t \in Txs : t = tx[p]
  BY DEF IInv, Types
<1>1. t.op = "edit" /\ t.locks = <<>> /\ End(p)
  BY <1>0 DEF CommitEdit, Ready
<1>2. t.goal # NoGoal
  BY <1>0, <1>1 DEF IInv, TxOK, Shape
<1>3. PICK g \in GoalIds : g = t.goal
  BY <1>2 DEF Txs
<1>4. goal[g] \in GoalRows /\ goal[g].status # "none" /\ holder[g] = p /\ t.what \in Nat
  BY <1>0, <1>1, <1>2, <1>3, Holding DEF Txs
<1>5. tx' = [tx EXCEPT ![p] = NoTx] /\ Release(p)
  BY <1>1 DEF End
<1>6. /\ paid' = paid
      /\ paid' \in [Tips -> {"pending", "settled", "reversed"}]
      /\ \A i \in Tips : paid'[i] = "pending" => paid[i] = "pending"
  BY DEF CommitEdit, rows, IInv, Types
<1>7. CASE goal[g].status # "active" \/ Conflict(p)
  <2>1. UNCHANGED <<goal, contrib, told>>
    BY <1>0, <1>3, <1>7 DEF CommitEdit, rows
  <2> QED BY <1>5, <1>6, <2>1, EndStep
<1>8. CASE goal[g].status = "active" /\ ~Conflict(p)
  <2>0. PICK c \in [Tips -> Contributions] : c = contrib
    BY DEF IInv, Types
  <2> DEFINE m     == [goal[g] EXCEPT !.target = t.what]
             total == Total(c, g)
             r     == [MarkReached(m, total) EXCEPT !.revision = goal[g].revision + 1]
  <2>1. contrib' = contrib /\ Changed(g, MarkReached(m, total), total)
    BY <1>0, <1>3, <1>8, <2>0 DEF CommitEdit
  <2>2. m \in GoalRows /\ m.status = goal[g].status
    BY <1>4 DEF GoalRows
  <2>3. goal[g].revision + 1 \in Nat
    BY <1>4 DEF GoalRows
  <2> HIDE DEF m
  <2> HIDE DEF total
  <2>4. /\ r \in GoalRows /\ r.revision = goal[g].revision + 1 /\ r.status = m.status
        /\ (r.reached <=> total >= r.target)
    BY <2>2, <2>3, MarkedRow
  <2>5. goal' = [goal EXCEPT ![g] = r] /\ told' = [told EXCEPT ![g] = View(r, total)]
    BY <2>1 DEF Changed
  <2> HIDE DEF r
  <2>6. Step(g, r, c)
    BY <1>4, <2>0, <2>1, <2>2, <2>4, <2>5 DEF Step
  <2>7. Acts(p, g, r)
    BY <1>4, <2>2, <2>4 DEF Acts
  <2>8. Announces(g, r, c)
    BY <1>6, <2>0, <2>4, <2>5 DEF Announces, total
  <2> QED BY <1>1, <2>6, <2>7, <2>8, CommitStep
<1> QED BY <1>7, <1>8

LEMMA CommitCloseStep ==
    ASSUME IInv, NEW p \in Procs, CommitClose(p)
    PROVE  IInv'
<1>0. PICK t \in Txs : t = tx[p]
  BY DEF IInv, Types
<1>1. t.op = "close" /\ t.locks = <<>> /\ End(p)
  BY <1>0 DEF CommitClose, Ready
<1>2. t.goal # NoGoal
  BY <1>0, <1>1 DEF IInv, TxOK, Shape
<1>3. PICK g \in GoalIds : g = t.goal
  BY <1>2 DEF Txs
<1>4. goal[g] \in GoalRows /\ goal[g].status # "none" /\ holder[g] = p
  BY <1>0, <1>1, <1>2, <1>3, Holding
<1>5. tx' = [tx EXCEPT ![p] = NoTx] /\ Release(p)
  BY <1>1 DEF End
<1>6. /\ paid' = paid
      /\ paid' \in [Tips -> {"pending", "settled", "reversed"}]
      /\ \A i \in Tips : paid'[i] = "pending" => paid[i] = "pending"
  BY DEF CommitClose, rows, IInv, Types
<1>7. CASE goal[g].status # "active"
  <2>1. UNCHANGED <<goal, contrib, told>>
    BY <1>0, <1>3, <1>7 DEF CommitClose, rows
  <2> QED BY <1>5, <1>6, <2>1, EndStep
<1>8. CASE goal[g].status = "active"
  <2>0. PICK c \in [Tips -> Contributions] : c = contrib
    BY DEF IInv, Types
  <2> DEFINE m == [goal[g] EXCEPT !.status = "closed"]
             r == [m EXCEPT !.revision = goal[g].revision + 1]
  <2>1. contrib' = contrib /\ Changed(g, m, Total(c, g))
    BY <1>0, <1>3, <1>8, <2>0 DEF CommitClose
  <2>2. m \in GoalRows /\ m.status = "closed" /\ m.reached = goal[g].reached
        /\ m.target = goal[g].target
    BY <1>4 DEF GoalRows
  <2>3. goal[g].revision + 1 \in Nat
    BY <1>4 DEF GoalRows
  <2> HIDE DEF m
  <2>4. /\ r \in GoalRows /\ r.revision = goal[g].revision + 1 /\ r.status = "closed"
        /\ r.reached = goal[g].reached /\ r.target = goal[g].target
    BY <2>2, <2>3 DEF GoalRows
  <2>5. goal' = [goal EXCEPT ![g] = r] /\ told' = [told EXCEPT ![g] = View(r, Total(c, g))]
    BY <2>1 DEF Changed
  <2> HIDE DEF r
  <2>6. Step(g, r, c)
    BY <2>0, <2>1, <2>4, <2>5 DEF Step
  <2>7. Acts(p, g, r)
    BY <1>4, <2>4 DEF Acts
  <2>8. r.reached <=> Total(c, g) >= r.target
    <3>1. goal[g].reached <=> Total(contrib, g) >= goal[g].target
      BY <1>4 DEF IInv, ReachedIsTrue
    <3> QED BY <2>0, <2>4, <3>1
  <2>9. Announces(g, r, c)
    BY <1>6, <2>0, <2>5, <2>8 DEF Announces
  <2> QED BY <1>1, <2>6, <2>7, <2>9, CommitStep
<1> QED BY <1>7, <1>8

-----------------------------------------------------------------------------
(* The invariant is inductive *)

LEMMA InitOK == Init => IInv
<1> SUFFICES ASSUME Init PROVE IInv
  OBVIOUS
<1>1. Types
  BY NoTxFacts DEF Init, Types
<1>2. \A g \in GoalIds : goal[g] = NoRow /\ goal[g].status = "none" /\ Total(contrib, g) = 0
  <2>1. \A i \in Tips : contrib[i] = NoContribution /\ NoContribution.goal = NoGoal
    BY DEF Init, NoContribution
  <2> QED BY <2>1, Kinds4 DEF Init, NoRow, Total
<1>3. Told
  <2>1. View(NoRow, 0) = [revision |-> 0, total |-> 0, target |-> 0,
                          reached |-> FALSE, status |-> "none"]
    BY DEF View, NoRow
  <2>2. \A g \in GoalIds : View(goal[g], Total(contrib, g)) = View(NoRow, 0)
    BY <1>2
  <2> QED BY <2>1, <2>2 DEF Init, Told
<1>4. Contributed
  <2>1. \A i \in Tips : contrib[i] = NoContribution
    BY DEF Init
  <2> QED BY <2>1, Kinds4 DEF NoContribution, Contributed
<1>5. ReachedIsTrue
  BY <1>2 DEF ReachedIsTrue
<1>6. Limited
  <2>1. Active(goal) = {}
    BY <1>2 DEF Active
  <2> QED BY <2>1, FS_EmptySet, GoalsConstantsOK DEF Limited
<1>7. Distinct
  BY NoTxFacts DEF Init, Distinct
<1>8. ASSUME NEW p \in Procs PROVE TxOK(p)
  <2>1. tx[p] = NoTx /\ \A l \in Locks : holder[l] # p
    BY Kinds4 DEF Init
  <2> QED BY <2>1, Ended DEF TxOK
<1> QED BY <1>1, <1>3, <1>4, <1>5, <1>6, <1>7, <1>8 DEF IInv

LEMMA StepOK == IInv /\ [Next]_vars => IInv'
<1> SUFFICES ASSUME IInv, [Next]_vars PROVE IInv'
  OBVIOUS
<1>1. CASE UNCHANGED vars
  BY <1>1 DEF vars, IInv, Types, Told, Contributed, ReachedIsTrue, Limited, Distinct, TxOK
<1>2. ASSUME NEW p \in Procs, Beginning(p) PROVE IInv'
  BY <1>2, BeginSettleStep, BeginReverseStep, BeginCreateStep, BeginEditStep, BeginCloseStep
     DEF Beginning
<1>3. ASSUME NEW p \in Procs, Running(p) PROVE IInv'
  BY <1>3, LockStep, CommitSettleStep, CommitReverseStep, CountActiveStep, CommitCreateStep,
     CommitEditStep, CommitCloseStep
     DEF Running
<1> QED BY <1>1, <1>2, <1>3 DEF Next

\* The strengthening holds in every state that can be reached.
THEOREM GoalsInvariant == Spec => []IInv
  BY InitOK, StepOK, PTL DEF Spec

\* A goal is marked reached exactly while its total reaches its target (markReached()).
THEOREM GoalsReached == Spec => []ReachedIsTrue
<1>1. IInv => ReachedIsTrue
  BY DEF IInv
<1> QED BY <1>1, GoalsInvariant, PTL

\* What was announced of a goal last is what the goal is (changed(), presentMany()).
THEOREM LastWord == Spec => []LastWordIsTrue
<1>1. IInv => LastWordIsTrue
  BY DEF IInv, Told, LastWordIsTrue
<1> QED BY <1>1, GoalsInvariant, PTL

\* A creator never has more than MaxActive active goals (create()).
THEOREM ActiveLimited == Spec => []ActiveLimit
<1>1. IInv => ActiveLimit
  BY DEF IInv, Limited, ActiveLimit
<1> QED BY <1>1, GoalsInvariant, PTL

-----------------------------------------------------------------------------
(* No circle of transactions that wait *)

LEMMA NobodyStuck == IInv => NoDeadlock
<1> SUFFICES ASSUME IInv, NEW W \in (SUBSET Procs) \ {{}}, \A p \in W : WaitsFor(p) \in W
             PROVE  FALSE
  BY Zenon DEF NoDeadlock
<1>0. W # {} /\ W \subseteq Procs
  OBVIOUS
<1> DEFINE next(p) == Head(tx[p].locks)
<1>1. ASSUME NEW p \in W PROVE tx[p].locks # <<>> /\ holder[next(p)] \in W
  <2>1. NoProc \notin W
    BY <1>0, Kinds4
  <2> QED BY <2>1 DEF WaitsFor
<1>2. ASSUME NEW p \in W
      PROVE  /\ Shape(tx[p]) /\ Holds(p, tx[p], holder) /\ tx[p] \in Txs
             /\ next(p) \in Locks
  <2>1. tx[p] \in Txs /\ tx[p].locks \in Seq(Locks)
    BY <1>0 DEF IInv, Types, Txs
  <2>2. next(p) \in Locks
    BY <1>1, <2>1
  <2> QED BY <1>0, <2>1, <2>2 DEF IInv, TxOK
<1>3. \A p \in W : next(p) # Stream
  BY <1>1, <1>2 DEF Holds
<1>4. \A p \in W : tx[p].locks \notin {<<Stream>>, <<>>}
  BY <1>1, <1>3, Lists
<1>5. \A p \in W : next(p) \notin GoalIds
  <2> SUFFICES ASSUME NEW p \in W, next(p) \in GoalIds PROVE FALSE
    OBVIOUS
  <2>1. PICK q \in W : holder[next(p)] = q
    BY <1>1
  <2>2. tx[q].locks \in {<<Stream>>, <<>>}
    BY <1>2, <2>1 DEF Holds
  <2> QED BY <1>4, <2>2
<1>6. \A p \in W : next(p) \notin Tips
  <2> SUFFICES ASSUME NEW p \in W, next(p) \in Tips PROVE FALSE
    OBVIOUS
  <2>1. PICK q \in W : holder[next(p)] = q
    BY <1>1
  <2>2. tx[q].op \in {"settle", "reverse"}
        /\ tx[q].locks \in {<<tx[q].goal, Stream>>, <<Stream>>, <<>>}
    BY <1>2, <2>1 DEF Holds
  <2>3. tx[q].locks = <<tx[q].goal, Stream>>
    BY <1>4, <2>2
  <2>4. next(q) = tx[q].goal
    BY <2>3, Lists
  <2>5. tx[q].goal = NoGoal
    BY <1>2, <1>5, <2>4 DEF Txs
  <2>6. tx[q].tip \in Tips /\ tx[q].locks \in {<<tx[q].tip, Stream>>, <<Stream>>, <<>>}
    BY <1>2, <2>2, <2>5 DEF Shape
  <2>7. tx[q].locks = <<tx[q].tip, Stream>>
    BY <1>4, <2>6
  <2>8. next(q) = tx[q].tip
    BY <2>7, Lists
  <2> QED BY <2>4, <2>5, <2>6, <2>8, Kinds4
<1>7. \A p \in W : next(p) # Creator
  <2> SUFFICES ASSUME NEW p \in W, next(p) = Creator PROVE FALSE
    OBVIOUS
  <2>1. PICK q \in W : holder[next(p)] = q
    BY <1>1
  <2>2. tx[q].locks \in {<<Stream>>, <<>>}
    BY <1>2, <2>1 DEF Holds
  <2> QED BY <1>4, <2>2
<1> QED BY <1>0, <1>2, <1>3, <1>5, <1>6, <1>7 DEF Locks

\* The order of the locks rules out every circle of transactions that wait for each other.
THEOREM NobodyWaitsForEver == Spec => []NoDeadlock
  BY NobodyStuck, GoalsInvariant, PTL

-----------------------------------------------------------------------------
(* Edits are not lost *)

\* A step that is not the commit of an edit leaves the goals or the edit as they are.
LEMMA OtherSteps ==
    ASSUME IInv, NEW q \in Procs, Beginning(q) \/ Running(q), ~CommitEdit(q),
           NEW p \in Procs, tx[p].op = "edit", tx'[p].op = "none"
    PROVE  goal' = goal
<1>1. tx \in [Procs -> Txs]
  BY DEF IInv, Types
<1>2. CASE Beginning(q)
  BY <1>2 DEF Beginning, BeginSettle, BeginReverse, BeginCreate, BeginEdit, BeginClose, Begin, rows
<1>3. CASE Lock(q) \/ CountActive(q)
  BY <1>3 DEF Lock, CountActive, rows
<1>4. CASE CommitSettle(q) \/ CommitReverse(q) \/ CommitCreate(q) \/ CommitClose(q)
  <2>1. tx[q].op # "edit" /\ tx' = [tx EXCEPT ![q] = NoTx]
    BY <1>4 DEF CommitSettle, CommitReverse, CommitCreate, CommitClose, Ready, End
  <2>2. p # q
    BY <2>1
  <2>3. tx'[p] = tx[p]
    BY <1>1, <2>1, <2>2
  <2> QED BY <2>3
<1> QED BY <1>2, <1>3, <1>4 DEF Running

\* The commit of an edit that carries a revision finds the goal its editor saw.
LEMMA EditCommits ==
    ASSUME IInv, NEW q \in Procs, CommitEdit(q),
           NEW p \in Procs, Edited(p), tx'[p].op = "none"
    PROVE  goal[tx[p].goal] = tx[p].goals[tx[p].goal]
<1>1. tx \in [Procs -> Txs] /\ tx' = [tx EXCEPT ![q] = NoTx]
  BY DEF IInv, Types, CommitEdit, End
<1>2. tx[p].op = "edit" /\ tx[p].seen # 0 /\ goal' # goal
  BY DEF Edited
<1>3. p = q
  <2>1. p # q => tx'[p] = tx[p]
    BY <1>1
  <2> QED BY <1>2, <2>1
<1>4. ~Conflict(p)
  BY <1>2, <1>3 DEF CommitEdit, rows
<1>5. goal[tx[p].goal].revision = tx[p].seen
  BY <1>2, <1>4 DEF Conflict
<1>6. Saw(tx[p], goal)
  BY <1>2 DEF IInv, TxOK, Knows
<1> QED BY <1>5, <1>6 DEF Saw

\* An edit that carries a revision commits only over the goal its editor saw (update()).
THEOREM EditsAreKept == Spec => NoLostEdit
<1> DEFINE Kept == \A p \in Procs : Edited(p) /\ tx'[p].op = "none" =>
                       goal[tx[p].goal] = tx[p].goals[tx[p].goal]
<1>1. ASSUME IInv, [Next]_vars PROVE [Kept]_vars
  <2> SUFFICES ASSUME ~UNCHANGED vars, NEW p \in Procs, Edited(p), tx'[p].op = "none"
               PROVE  goal[tx[p].goal] = tx[p].goals[tx[p].goal]
    OBVIOUS
  <2>1. PICK q \in Procs : Beginning(q) \/ Running(q)
    BY <1>1 DEF Next
  <2>2. tx[p].op = "edit" /\ goal' # goal
    BY DEF Edited
  <2>3. CommitEdit(q)
    BY <1>1, <2>1, <2>2, OtherSteps
  <2> QED BY <1>1, <2>3, EditCommits
<1> QED BY <1>1, GoalsInvariant, PTL DEF Spec, NoLostEdit

=============================================================================
