------------------------------- MODULE Goals -------------------------------
(***************************************************************************)
(* The goals of one creator (domain/goals.js): settled tips count toward a *)
(* goal, reversals take off, the creator adds, edits and closes goals, and *)
(* every change is announced under a new revision to the overlays and on   *)
(* OpenVibe.Events.                                                        *)
(*                                                                         *)
(* Settlements and reversals are SERIALIZABLE: they read the state their   *)
(* first statement saw, and a goal changed since cannot be locked: the     *)
(* transaction starts over.  The creator's transactions are READ COMMITTED *)
(* and read what is committed when they read.  All lock rows in one order  *)
(* (domain/index.js): the creator, interactions, goals, the stream.        *)
(***************************************************************************)
EXTENDS Naturals, FiniteSets, Sequences, Functions

CONSTANTS
    Procs,      \* transactions that can run at once
    NoProc,     \* a lock nobody holds
    Tips,       \* interactions of the creator
    GoalIds,    \* goals the creator may add
    NoGoal,     \* no goal
    Creator,    \* the creator's profile row
    Stream,     \* the advisory lock of the creator's overlay stream
    Amounts,    \* amounts of tips, in bits
    Targets,    \* target amounts
    MaxActive,  \* active goals a creator may have (20)
    MaxEdits    \* bound: edits and closes that commit

ASSUME GoalsConstantsOK ==
    /\ Amounts \subseteq Nat \ {0} /\ Targets \subseteq Nat \ {0}
    /\ MaxActive \in Nat /\ MaxEdits \in Nat
    /\ NoProc \notin Procs /\ NoGoal \notin GoalIds \cup Tips
    /\ Creator \notin Tips \cup GoalIds \cup {Stream} /\ Stream \notin Tips \cup GoalIds
    /\ Tips \cap GoalIds = {}

VARIABLES
    goal,     \* [GoalIds -> GoalRows]
    contrib,  \* [Tips -> Contributions]: tip_goal_contributions
    paid,     \* [Tips -> {"pending", "settled", "reversed"}]
    told,     \* [GoalIds -> Views]: what was announced of each goal last
    holder,   \* [Locks -> Procs \cup {NoProc}]
    tx,       \* [Procs -> Txs]: the transaction each runs
    edits

vars == <<goal, contrib, paid, told, holder, tx, edits>>
rows == <<goal, contrib, paid, told>>

Locks == {Creator} \cup Tips \cup GoalIds \cup {Stream}

GoalRows      == [status : {"none", "active", "closed"}, target : Nat, reached : BOOLEAN,
                  revision : Nat]
Contributions == [goal : GoalIds \cup {NoGoal}, amount : Nat, reversed : Nat]
Views         == [revision : Nat, total : Nat, target : Nat, reached : BOOLEAN,
                  status : {"none", "active", "closed"}]

\* what: bits given or taken back, or the new target; seen: the revision an edit carries, 0
\* for none, or that a creation counted; tips, goals: what a SERIALIZABLE transaction reads,
\* and the goal as the editor saw it.
Txs == [op    : {"none", "settle", "reverse", "create", "edit", "close"},
        tip   : Tips \cup {Creator}, goal : GoalIds \cup {NoGoal}, what : Nat, seen : Nat,
        locks : Seq(Locks), goals : [GoalIds -> GoalRows], tips : [Tips -> Contributions]]

NoRow == [status |-> "none", target |-> 0, reached |-> FALSE, revision |-> 0]
NoContribution == [goal |-> NoGoal, amount |-> 0, reversed |-> 0]
NoTx  == [op |-> "none", tip |-> Creator, goal |-> NoGoal, what |-> 0, seen |-> 0,
          locks |-> <<>>, goals |-> [g \in GoalIds |-> NoRow],
          tips |-> [i \in Tips |-> NoContribution]]

Init ==
    /\ goal    = [g \in GoalIds |-> NoRow]
    /\ contrib = [i \in Tips |-> NoContribution]
    /\ paid    = [i \in Tips |-> "pending"]
    /\ told    = [g \in GoalIds |-> [revision |-> 0, total |-> 0, target |-> 0,
                                     reached |-> FALSE, status |-> "none"]]
    /\ holder  = [l \in Locks |-> NoProc]
    /\ tx      = [p \in Procs |-> NoTx]
    /\ edits   = 0

-----------------------------------------------------------------------------
(* Reads *)

\* What each interaction still gives a goal.
Given(c, g) == [i \in {j \in Tips : c[j].goal = g} |-> c[i].amount - c[i].reversed]

\* totalsOf(): a goal's total is derived from its contributions, 0 when it has none.
Total(c, g) == IF \A i \in Tips : c[i].goal # g THEN 0 ELSE SumFunction(Given(c, g))

Active(gs) == {g \in GoalIds : gs[g].status = "active"}

\* pick(): the goal asked for if it is active, otherwise the only active one.
Pick(gs, asked) ==
    IF asked \in Active(gs) THEN asked
    ELSE IF Cardinality(Active(gs)) = 1 THEN CHOOSE g \in Active(gs) : TRUE ELSE NoGoal

-----------------------------------------------------------------------------
(* Transactions: begin, take the locks in order, commit *)

Begin(p, t) ==
    /\ tx[p].op = "none"
    /\ tx' = [tx EXCEPT ![p] = t]
    /\ UNCHANGED <<rows, holder, edits>>

Reading(op) == [NoTx EXCEPT !.op = op, !.goals = goal, !.tips = contrib]

\* settle(): the interaction, the goal it counts toward, the stream of its alert.
BeginSettle(p, i, a, asked) ==
    LET g == Pick(goal, asked)
    IN  /\ paid[i] = "pending"
        /\ Begin(p, [Reading("settle") EXCEPT !.tip = i, !.what = a, !.goal = g,
                        !.locks = IF g = NoGoal THEN <<i, Stream>> ELSE <<i, g, Stream>>])

\* onBillingReversed() of a tip that counts, with bits taken back.
BeginReverse(p, i, bits) ==
    LET g == contrib[i].goal
    IN  /\ g # NoGoal
        /\ Begin(p, [Reading("reverse") EXCEPT !.tip = i, !.what = bits, !.goal = g,
                                               !.locks = <<i, g, Stream>>])

\* Mutant: the active goals are counted without the creator's lock.
CreateLocksUnlocked == <<Stream>>

CreateLocks == <<Creator, Stream>>

\* create(): a fresh id.  seen: the active goals were counted (CountActive).
BeginCreate(p, g, target) ==
    /\ goal[g].status = "none" /\ \A q \in Procs : tx[q].goal # g
    /\ Begin(p, [NoTx EXCEPT !.op = "create", !.goal = g, !.what = target,
                             !.locks = CreateLocks])

\* Mutant: the overlay stream is taken before the goal.
GoalLocksSwapped(g) == <<Stream, g>>

GoalLocks(g) == <<g, Stream>>

\* update(): the editor read the goal; what it sends carries the revision (the page's form, a
\* careful client), or none.
BeginEdit(p, g, target) ==
    /\ goal[g].status = "active" /\ edits < MaxEdits
    /\ \E revision \in {0, goal[g].revision} :
          Begin(p, [NoTx EXCEPT !.op = "edit", !.goal = g, !.what = target, !.seen = revision,
                                !.goals = [@ EXCEPT ![g] = goal[g]], !.locks = GoalLocks(g)])

BeginClose(p, g) ==
    /\ goal[g].status = "active" /\ edits < MaxEdits
    /\ Begin(p, [NoTx EXCEPT !.op = "close", !.goal = g, !.locks = GoalLocks(g)])

Release(p) == holder' = [l \in Locks |-> IF holder[l] = p THEN NoProc ELSE holder[l]]

Serializable(t) == t.op \in {"settle", "reverse"}

\* Mutant: the goal is read without FOR UPDATE and without its conflict check.
StaleNever(p, l) == FALSE

\* The row changed since the transaction's first statement: it cannot be locked.
Stale(p, l) == Serializable(tx[p]) /\ l \in GoalIds /\ goal[l] # tx[p].goals[l]

\* The next lock, or the start over of a transaction that read something stale.
Lock(p) ==
    /\ tx[p].op # "none" /\ tx[p].locks # <<>>
    /\ Head(tx[p].locks) = Stream /\ tx[p].op = "create" => tx[p].seen = 1
    /\ LET l == Head(tx[p].locks)
       IN  /\ holder[l] = NoProc
           /\ IF Stale(p, l)
              THEN /\ tx' = [tx EXCEPT ![p] = NoTx]
                   /\ Release(p)
              ELSE /\ tx' = [tx EXCEPT ![p].locks = Tail(@)]
                   /\ holder' = [holder EXCEPT ![l] = p]
    /\ UNCHANGED <<rows, edits>>

End(p) ==
    /\ tx' = [tx EXCEPT ![p] = NoTx]
    /\ Release(p)

Ready(p, op) == tx[p].op = op /\ tx[p].locks = <<>>

\* Mutant: reached_at is set and never cleared.
ReachedOnce(row, total) == [row EXCEPT !.reached = @ \/ total >= row.target]

\* markReached(): set or cleared from the total.
MarkReached(row, total) == [row EXCEPT !.reached = total >= row.target]

\* presentMany(), of what the transaction reads.
View(row, total) ==
    [revision |-> row.revision, total |-> total, target |-> row.target,
     reached |-> row.reached, status |-> row.status]

\* changed(): a new revision, announced.  total: the total the transaction reads.
Changed(g, row, total) ==
    LET next == [row EXCEPT !.revision = goal[g].revision + 1]
    IN  /\ goal' = [goal EXCEPT ![g] = next]
        /\ told' = [told EXCEPT ![g] = View(next, total)]

-----------------------------------------------------------------------------
(* What each transaction commits *)

\* contribute(), in the settlement: the whole amount, once.
CommitSettle(p) ==
    LET i == tx[p].tip
        g == tx[p].goal
        counted == [tx[p].tips EXCEPT ![i] = [goal |-> g, amount |-> tx[p].what, reversed |-> 0]]
        total   == Total(counted, g)
    IN  /\ Ready(p, "settle")
        /\ IF paid[i] # "pending" THEN UNCHANGED rows     \* settled by another meanwhile
           ELSE /\ paid' = [paid EXCEPT ![i] = "settled"]
                /\ IF g = NoGoal \/ goal[g].status # "active" THEN UNCHANGED <<goal, contrib, told>>
                   ELSE /\ contrib' = [contrib EXCEPT ![i] = counted[i]]
                        /\ Changed(g, MarkReached(goal[g], total), total)
        /\ End(p)
        /\ UNCHANGED edits

\* reverse(), in the reversal: never more than earlier ones left of the contribution.
CommitReverse(p) ==
    LET i == tx[p].tip
        g == tx[p].goal
        left == contrib[i].amount - contrib[i].reversed
        take == IF tx[p].what <= left THEN tx[p].what ELSE left
        after == [tx[p].tips EXCEPT ![i].reversed = @ + take]
        total == Total(after, g)
    IN  /\ Ready(p, "reverse")
        /\ paid' = [paid EXCEPT ![i] = "reversed"]
        /\ IF take = 0 THEN UNCHANGED <<goal, contrib, told>>
           ELSE /\ contrib' = [contrib EXCEPT ![i] = after[i]]
                /\ Changed(g, MarkReached(goal[g], total), total)
        /\ End(p)
        /\ UNCHANGED edits

\* create(), once it holds the creator's row: too many are refused.
CountActive(p) ==
    /\ tx[p].op = "create" /\ tx[p].locks = <<Stream>> /\ tx[p].seen = 0
    /\ IF Cardinality(Active(goal)) >= MaxActive THEN End(p)
       ELSE /\ tx' = [tx EXCEPT ![p].seen = 1]
            /\ UNCHANGED holder
    /\ UNCHANGED <<rows, edits>>

CommitCreate(p) ==
    LET g == tx[p].goal
    IN  /\ Ready(p, "create")
        /\ Changed(g, [NoRow EXCEPT !.status = "active", !.target = tx[p].what], 0)
        /\ End(p)
        /\ UNCHANGED <<contrib, paid, edits>>

\* Mutant: the revision is checked before the lock only.
CommitEditStale(p) ==
    LET g == tx[p].goal
        total == Total(contrib, g)
    IN  /\ Ready(p, "edit")
        /\ IF goal[g].status # "active" THEN UNCHANGED <<rows, edits>>
           ELSE /\ Changed(g, MarkReached([goal[g] EXCEPT !.target = tx[p].what], total), total)
                /\ edits' = edits + 1
                /\ UNCHANGED <<contrib, paid>>
        /\ End(p)

\* The edit carries a revision, which is not the goal's.
Conflict(p) == tx[p].seen # 0 /\ goal[tx[p].goal].revision # tx[p].seen

\* update(): refused when the goal was closed, or changed since the revision the edit carries.
CommitEdit(p) ==
    LET g == tx[p].goal
        total == Total(contrib, g)
    IN  /\ Ready(p, "edit")
        /\ IF goal[g].status # "active" \/ Conflict(p)
           THEN UNCHANGED <<rows, edits>>
           ELSE /\ Changed(g, MarkReached([goal[g] EXCEPT !.target = tx[p].what], total), total)
                /\ edits' = edits + 1
                /\ UNCHANGED <<contrib, paid>>
        /\ End(p)

CommitClose(p) ==
    LET g == tx[p].goal
    IN  /\ Ready(p, "close")
        /\ IF goal[g].status # "active" THEN UNCHANGED <<rows, edits>>
           ELSE /\ Changed(g, [goal[g] EXCEPT !.status = "closed"], Total(contrib, g))
                /\ edits' = edits + 1
                /\ UNCHANGED <<contrib, paid>>
        /\ End(p)

-----------------------------------------------------------------------------
(* Specification *)

Beginning(p) ==
    \/ \E i \in Tips, a \in Amounts, asked \in GoalIds \cup {NoGoal} : BeginSettle(p, i, a, asked)
    \/ \E i \in Tips : \E bits \in 1..contrib[i].amount : BeginReverse(p, i, bits)
    \/ \E g \in GoalIds, target \in Targets : BeginCreate(p, g, target) \/ BeginEdit(p, g, target)
    \/ \E g \in GoalIds : BeginClose(p, g)

Running(p) ==
    \/ Lock(p)
    \/ CommitSettle(p)
    \/ CommitReverse(p)
    \/ CountActive(p)
    \/ CommitCreate(p)
    \/ CommitEdit(p)
    \/ CommitClose(p)

Next == \E p \in Procs : Beginning(p) \/ Running(p)

Spec == Init /\ [][Next]_vars

-----------------------------------------------------------------------------
(* Properties *)

\* Every variable stays in its type.
TypeOK ==
    /\ goal \in [GoalIds -> GoalRows] /\ contrib \in [Tips -> Contributions]
    /\ paid \in [Tips -> {"pending", "settled", "reversed"}]
    /\ told \in [GoalIds -> Views] /\ holder \in [Locks -> Procs \cup {NoProc}]
    /\ tx \in [Procs -> Txs] /\ edits \in Nat

\* A goal is marked reached exactly while its total reaches its target, over concurrent
\* settlements, partial reversals and edits of the target.
ReachedIsTrue ==
    \A g \in GoalIds : goal[g].status # "none" =>
        (goal[g].reached <=> Total(contrib, g) >= goal[g].target)

\* What overlays and Events were told last of a goal is what the goal is: no announcement
\* carries a total another transaction had changed, and none is missing.
LastWordIsTrue ==
    \A g \in GoalIds : told[g] = View(goal[g], Total(contrib, g))

\* A creator has at most MaxActive active goals, whatever is added at once.
ActiveLimit == Cardinality(Active(goal)) <= MaxActive

\* An edit that carries a revision changes the goal only while it is, in every respect, what
\* its editor saw: nothing that another transaction committed meanwhile is overwritten, for each
\* of them makes a revision of its own.  (An edit without one overwrites what it finds.)
Edited(p) == tx[p].op = "edit" /\ tx[p].seen # 0 /\ goal'[tx[p].goal] # goal[tx[p].goal]

NoLostEdit ==
    [][\A p \in Procs : Edited(p) /\ tx'[p].op = "none" =>
          goal[tx[p].goal] = tx[p].goals[tx[p].goal]]_vars

\* Nobody waits for ever: among the transactions that wait for a lock, some waits for one
\* whose holder can go on.
WaitsFor(p) == IF tx[p].locks = <<>> THEN NoProc ELSE holder[Head(tx[p].locks)]

NoDeadlock == ~\E waiting \in (SUBSET Procs) \ {{}} : \A p \in waiting : WaitsFor(p) \in waiting
=============================================================================
