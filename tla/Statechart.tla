----------------------------- MODULE Statechart -----------------------------
(***************************************************************************)
(* The run-to-completion algorithm of src/src/xstate/algorithm.py: which   *)
(* transitions an event selects, which states they exit and enter, what    *)
(* history they record, and how raised and done events drive a macrostep   *)
(* to its end or to InfiniteLoopError.                                     *)
(*                                                                         *)
(* The chart is data.  Its tree is given by the constants; its transitions *)
(* are the variable chart, chosen at Init among Charts, so that one run    *)
(* covers every chart of a family.  Guards are user code: a guarded        *)
(* transition passes or not at each selection, whatever the state.         *)
(* Contexts and the actions left to the runtime are not part of the model. *)
(***************************************************************************)
EXTENDS ConfigParser

CONSTANTS
    Doc,            \* the state nodes in document order; the first is the root
    Kind,           \* [node -> atomic, compound, parallel, final, history]
    Parent,         \* [node other than the root -> node]
    Initial,        \* [compound node -> its initial child]
    Deep,           \* history nodes with history: "deep"
    HistoryTarget,  \* [history node -> set of its default targets, {} if none]
    EntryRaise,     \* [node -> events its entry actions raise]
    ExitRaise,      \* [node -> events its exit actions raise]
    Charts,         \* sets of transitions
    External,       \* external events
    MaxIterations,  \* the machine's max_iterations
    Unlimited       \* its default, None

ASSUME IterationsAssumption == MaxIterations \in Nat \/ MaxIterations = Unlimited

VARIABLES
    chart,      \* the machine's transitions
    config,     \* the working configuration
    hist,       \* the working history_value: [history node -> set of nodes]
    queue,      \* the internal queue
    phase,      \* new, macrostep, settled
    iterations, \* microsteps of this macrostep
    output,     \* the final node whose donedata is the output, or NoNode
    committed,  \* the last snapshot returned: configuration, history, output
    last        \* history variable: the last microstep

vars == <<chart, config, hist, queue, phase, iterations, output, committed, last>>

-----------------------------------------------------------------------------
(* The tree *)

Node == ToSet(Doc)
Root == Doc[1]
Order == [n \in Node |-> CHOOSE i \in DOMAIN Doc : Doc[i] = n]
Outward == [n \in Node |-> Len(Doc) - Order[n]]
History == {n \in Node : Kind[n] = "history"}
IsAtomic(n) == Kind[n] \in {"atomic", "final", "history"}

\* All proper ancestors.
Ancestors == LET up[n \in Node] == IF n = Root THEN {} ELSE {Parent[n]} \cup up[Parent[n]]
             IN up

\* Of nodes on one branch, the one furthest from the root.
Innermost(S) == CHOOSE n \in S : \A m \in S : Order[m] <= Order[n]

\* Mutant of ProperAncestors: includes top.
ProperAncestorsWithTop(n, top) ==
    IF top \notin Ancestors[n] THEN Ancestors[n]
    ELSE {top} \cup {a \in Ancestors[n] : top \in Ancestors[a]}

\* get_proper_ancestors: those below top, or all when top is not among them.
ProperAncestors(n, top) ==
    IF top \notin Ancestors[n] THEN Ancestors[n]
    ELSE {a \in Ancestors[n] : top \in Ancestors[a]}

IsDescendant(n, m) == m = NoNode \/ m \in Ancestors[n]

\* The children that are not pseudo-states.
Kids == [n \in Node |-> {c \in Node \ History : c # Root /\ Parent[c] = n}]

\* What the steps of the members of a set make of base, one after the other in
\* the order of the key: step[x] is the function that x applies.
InOrder(key, step, base) ==
    MapThenFoldSet(LAMBDA x, acc : step[x][acc], base, LAMBDA x : x,
                   LAMBDA S : CHOOSE x \in S : \A y \in S : key[y] <= key[x],
                   DOMAIN step)

Event == Seq(STRING)

\* The events that the members of a set raise, in the order of the key.
RaisedInOrder(key, raises) ==
    InOrder(key, [x \in DOMAIN raises |-> [q \in Seq(Event) |-> q \o raises[x]]], <<>>)

IsInFinal(n, conf) ==
    LET final[m \in Node] ==
            \/ Kind[m] = "compound" /\ \E c \in Kids[m] : Kind[c] = "final" /\ c \in conf
            \/ Kind[m] = "parallel" /\ \A c \in Kids[m] : final[c]
    IN final[n]

-----------------------------------------------------------------------------
(* Transitions, as the parser makes them: records with an event descriptor,
   a source, a set of targets, whether it is internal, the state its `in`
   names, whether it has a guard, the events its actions raise, its order.  *)

\* The target of node.initial: the initial child, or a parallel node itself.
InitialOf(n) == IF Kind[n] = "parallel" THEN n ELSE Initial[n]

DefaultTarget(h) ==
    IF HistoryTarget[h] # {} THEN HistoryTarget[h] ELSE {InitialOf(Parent[h])}

EffectiveTargets(targets, h) ==
    LET effective[s \in Node] ==
            IF s \notin History THEN {s}
            ELSE IF h[s] # {} THEN h[s]
            ELSE UNION {effective[d] : d \in DefaultTarget(s)}
    IN UNION {effective[s] : s \in targets}

FindLCCA(n, targets) ==
    LET common == {a \in Ancestors[n] : /\ Kind[a] = "compound"
                                        /\ \A s \in targets : IsDescendant(s, a)}
    IN IF common = {} THEN NoNode ELSE Innermost(common)

IsAtomicSelf(t, targets) == IsAtomic(t.source) /\ targets = {t.source}

Domain(t, h) ==
    LET targets == EffectiveTargets(t.targets, h) IN
    CASE targets = {} -> NoNode
      [] IsAtomicSelf(t, targets) -> Parent[t.source]
      [] /\ targets # {} /\ ~IsAtomicSelf(t, targets)
         /\ t.internal /\ Kind[t.source] = "compound"
         /\ \A s \in targets : IsDescendant(s, t.source) -> t.source
      [] OTHER -> FindLCCA(t.source, targets)

ExitSet(ts, conf, h) ==
    UNION {LET targets == EffectiveTargets(t.targets, h) IN
           IF IsAtomicSelf(t, targets) THEN {t.source}
           ELSE {n \in conf : IsDescendant(n, Domain(t, h))}
             : t \in {u \in ts : u.targets # {}}}

-----------------------------------------------------------------------------
(* What the parser makes of any config *)

\* A tree: parents come before their children in the document.
ASSUME TreeAssumption ==
    /\ Doc \in Seq(Node) \ {<<>>} /\ IsInjective(Doc)
    /\ Node \cup {"done", "state"} \subseteq STRING /\ NoNode \notin Node
    /\ Kind \in [Node -> {"atomic", "compound", "parallel", "final", "history"}]
    /\ Root \notin History
    /\ Parent \in [Node \ {Root} -> Node]
    /\ \A n \in Node \ {Root} : Order[Parent[n]] < Order[n]
    /\ \A n \in Node : Kind[n] = "compound" =>
           Initial[n] \in Node \ {Root} /\ Parent[Initial[n]] = n
    /\ HistoryTarget \in [History -> SUBSET Node]
    /\ EntryRaise \in [Node -> Seq(Event)] /\ ExitRaise \in [Node -> Seq(Event)]

\* Transitions are numbered children first, then in document order.
NumberedBefore(t, u) ==
    \/ t.source = u.source
    \/ IsDescendant(t.source, u.source)
    \/ ~IsDescendant(u.source, t.source) /\ Order[t.source] < Order[u.source]

ASSUME ChartsAssumption ==
    \A c \in Charts :
        /\ IsFiniteSet(c)
        /\ \A t \in c : /\ t.source \in Node /\ t.targets \subseteq Node
                        /\ t.order \in Nat
                        /\ t.event \in [tokens : Event, wild : BOOLEAN]
                        /\ t.raises \in Seq(Event)
        /\ \A t, u \in c : t # u => t.order # u.order
        /\ \A t, u \in c : t.order < u.order => NumberedBefore(t, u)

-----------------------------------------------------------------------------
(* Well-formed charts: those for which legality is proved.  The parser does
   not ask for any of this, and other charts have illegal configurations.    *)

\* Where a target is: a history node stands for states below its parent.
Spot(s) == IF s \in History THEN Parent[s] ELSE s

\* States that can be active together, none below another.
Orthogonal(S) ==
    \A s, u \in S : s # u =>
        LET common == Ancestors[Spot(s)] \cap Ancestors[Spot(u)]
        IN /\ Spot(s) # Spot(u) /\ ~IsDescendant(Spot(u), Spot(s))
           /\ \A m \in common : Kind[m] = "compound" => Kids[m] \cap common # {}

WellFormedTree ==
    /\ Kind[Root] \in {"compound", "parallel"}
    /\ \A n \in Node \ {Root} : Kind[Parent[n]] \in {"compound", "parallel"}
    /\ \A n \in Node : Kind[n] = "compound" => Initial[n] \notin History
    /\ \A n \in Node : Kind[n] = "parallel" => Kids[n] # {}
    /\ \A h \in History :
           /\ \A s \in HistoryTarget[h] : s \notin History /\ IsDescendant(s, Parent[h])
           /\ Orthogonal(HistoryTarget[h])
           /\ Kind[Parent[h]] = "parallel" => HistoryTarget[h] # {}

\* A history node is entered from outside its parent, or stands for several
\* regions.
WellFormed(t) ==
    /\ Orthogonal(t.targets)
    /\ \A h \in t.targets \cap History :
           \/ ~IsDescendant(t.source, Parent[h])
           \/ /\ Kind[Parent[h]] = "parallel"
              /\ \A c \in Kids[Parent[h]] :
                     \E s \in HistoryTarget[h] : s # c /\ ~IsDescendant(s, c)

WellFormedCharts == \A c \in Charts : \A t \in c : WellFormed(t)

\* Those for which done events are proved: regions complete by final states, and
\* nothing raises a done event but completion.
WellFormedDone ==
    LET raisesDone(q) == \E n \in Node : Done(n) \in Range(q) IN
    /\ \A n \in Node : Kind[n] = "final" => Kind[Parent[n]] = "compound"
    /\ \A n \in Node \ {Root} : Kind[n] = "parallel" => Kind[Parent[n]] # "parallel"
    /\ \A n \in Node : ~raisesDone(EntryRaise[n]) /\ ~raisesDone(ExitRaise[n])
    /\ \A c \in Charts : \A t \in c : ~raisesDone(t.raises)

-----------------------------------------------------------------------------
(* Selection *)

Matches(d, e) == \/ d.tokens = e /\ ~d.wild
                 \/ d.wild /\ IsPrefix(d.tokens, e)

\* Exact descriptors first, then the longer wildcard, then document order.
Before(t, u) ==
    \/ ~t.event.wild /\ u.event.wild
    \/ /\ t.event.wild /\ u.event.wild
       /\ Len(t.event.tokens) > Len(u.event.tokens)
    \/ t.event = u.event /\ t.order <= u.order

\* condition_match, for the guards that hold at this selection.
Passes(t, conf, held) == /\ t.guarded => t \in held
                         /\ t.in # NoNode => t.in \in conf

\* For each active atomic state, the first transition that passes on the
\* innermost state that has one.
Enabled(candidates, conf, held) ==
    LET of(n) == {t \in candidates : t.source = n /\ Passes(t, conf, held)}
        able(a) == {n \in {a} \cup Ancestors[a] : of(n) # {}}
        first(a) == IF able(a) = {} THEN {}
                    ELSE LET ts == of(Innermost(able(a)))
                         IN {CHOOSE t \in ts : \A u \in ts : Before(t, u)}
    IN UNION {first(a) : a \in {n \in conf : IsAtomic(n)}}

\* Mutant of Filtered: only a transition of an ancestor is preempted.
FilteredWithinBranch(ts, conf, h) ==
    {t \in ts : \A u \in ts : IsDescendant(u.source, t.source) =>
                   ExitSet({t}, conf, h) \cap ExitSet({u}, conf, h) = {}}

\* Mutant of Filtered: a transition always replaces those it conflicts with.
FilteredLastWins(ts, conf, h) ==
    LET exits == [t \in ts |-> ExitSet({t}, conf, h)]
        rivals(t, kept) == {u \in kept : exits[t] \cap exits[u] # {}}
    IN InOrder([t \in ts |-> t.order],
               [t \in ts |-> [kept \in SUBSET ts |-> (kept \ rivals(t, kept)) \cup {t}]], {})

\* remove_conflicting_transitions: in document order, a transition replaces
\* those it conflicts with when its source is below all of theirs, and is
\* preempted otherwise.
Filtered(ts, conf, h) ==
    LET exits == [t \in ts |-> ExitSet({t}, conf, h)]
        rivals(t, kept) == {u \in kept : exits[t] \cap exits[u] # {}}
        add(t, kept) ==
            IF \A u \in rivals(t, kept) : IsDescendant(t.source, u.source)
            THEN (kept \ rivals(t, kept)) \cup {t}
            ELSE kept
    IN InOrder([t \in ts |-> t.order],
               [t \in ts |-> [kept \in SUBSET ts |-> add(t, kept)]], {})

SelectEventless(held) ==
    Enabled({t \in chart : t.event = Eventless}, config, held)
SelectFor(e, held) ==
    Enabled({t \in chart : t.event # Eventless /\ Matches(t.event, e)}, config, held)

-----------------------------------------------------------------------------
(* Entry set: add_descendent_states_to_enter and
   add_ancestor_states_to_enter, threading the states entered so far.       *)

\* The regions of parallel node p in which nothing is entered yet; down[c]
\* enters c and its descendants.
AddRegions(p, down, acc) ==
    InOrder(Order, [c \in Kids[p] |-> [a \in SUBSET Node |->
                        IF \E s \in a : IsDescendant(s, c) THEN a ELSE down[c][a]]], acc)

\* The ancestors of n below top, innermost first, with their other regions.
AddAncestors(n, top, down, acc) ==
    InOrder(Outward, [p \in ProperAncestors(n, top) |-> [a \in SUBSET Node |->
                          IF Kind[p] = "parallel" THEN AddRegions(p, down, a \cup {p})
                                                  ELSE a \cup {p}]], acc)

\* Mutant of AddDescendants: a history node is entered as a state.
AddHistoryNode(h) ==
    LET down[n \in Node] == [acc \in SUBSET Node |->
            CASE Kind[n] = "compound" -> down[Initial[n]][acc \cup {n}]
              [] Kind[n] = "parallel" -> AddRegions(n, down, acc \cup {n})
              [] OTHER -> acc \cup {n}]
    IN down

\* The function that gives, for a node and the set entered so far, the set with
\* the node and its descendants; for a history node, with what it stands for.
AddDescendants(h) ==
    LET restored(n) == IF h[n] # {} THEN h[n] ELSE DefaultTarget(n)
        down[n \in Node] == [acc \in SUBSET Node |->
            CASE Kind[n] = "history" ->
                    InOrder(Order, [s \in restored(n) |-> [a \in SUBSET Node |->
                                        AddAncestors(s, Parent[n], down, a)]],
                            InOrder(Order, [s \in restored(n) |-> down[s]], acc))
              [] Kind[n] = "compound" -> down[Initial[n]][acc \cup {n}]
              [] Kind[n] = "parallel" -> AddRegions(n, down, acc \cup {n})
              [] OTHER -> acc \cup {n}]
    IN down

EntrySet(ts, h) ==
    LET down == AddDescendants(h)
        enter(t, acc) ==
            InOrder(Order, [s \in EffectiveTargets(t.targets, h) |-> [a \in SUBSET Node |->
                                AddAncestors(s, Domain(t, h), down, a)]],
                    InOrder(Order, [s \in t.targets |-> down[s]], acc))
    IN InOrder([t \in ts |-> t.order],
               [t \in ts |-> [acc \in SUBSET Node |-> enter(t, acc)]], {})

-----------------------------------------------------------------------------
(* microstep *)

\* Mutant of Recorded: shallow and deep are exchanged.
RecordedSwapped(exiting, conf, h) ==
    [n \in History |->
        IF Parent[n] \notin exiting THEN h[n]
        ELSE IF n \notin Deep THEN {s \in conf : IsAtomic(s) /\ IsDescendant(s, Parent[n])}
        ELSE {s \in conf : s # Root /\ Parent[s] = Parent[n]}]

\* History recorded for the states in exiting.
Recorded(exiting, conf, h) ==
    [n \in History |->
        IF Parent[n] \notin exiting THEN h[n]
        ELSE IF n \in Deep THEN {s \in conf : IsAtomic(s) /\ IsDescendant(s, Parent[n])}
        ELSE {s \in conf : s # Root /\ Parent[s] = Parent[n]}]

\* Mutant of DoneEvents: one final region completes the parallel state.
DoneEventsEarly(n, conf) ==
    LET p == Parent[n] IN
    <<Done(p)>> \o
    IF p # Root /\ Kind[Parent[p]] = "parallel" THEN <<Done(Parent[p])>> ELSE <<>>

\* The done events that entering final node n raises in configuration conf.
DoneEvents(n, conf) ==
    LET p == Parent[n] IN
    <<Done(p)>> \o
    IF p # Root /\ Kind[Parent[p]] = "parallel" /\ IsInFinal(Parent[p], conf)
    THEN <<Done(Parent[p])>> ELSE <<>>

\* enter_states: the nodes of entering, one by one in document order; the
\* done events of a final node are those of the configuration so far.
EnterStates(entering, kept, out) ==
    LET upTo(n) == kept \cup {m \in entering : Order[m] <= Order[n]}
        donedata == {n \in entering : Kind[n] = "final" /\ n \in Kids[Root]}
    IN [config |-> kept \cup entering,
        raised |-> RaisedInOrder(Order, [n \in entering |->
                       EntryRaise[n] \o
                       IF Kind[n] = "final" THEN DoneEvents(n, upTo(n)) ELSE <<>>]),
        output |-> IF donedata = {} THEN out ELSE Innermost(donedata)]

\* exit_states: history is recorded before any state is left; the innermost
\* and last states are left first.
ExitStates(exiting) ==
    [config |-> config \ exiting, hist |-> Recorded(exiting, config, hist),
     raised |-> RaisedInOrder(Outward, [n \in exiting |-> ExitRaise[n]])]

\* execute_transition_content, in document order.
TransitionContent(ts) == RaisedInOrder([t \in ts |-> t.order], [t \in ts |-> t.raises])

\* The microstep that takes the transitions ts, with queue q.
Microstep(ts, q, out) ==
    LET left == ExitStates(ExitSet(ts, config, hist))
        entering == EntrySet(ts, left.hist)
        entered == EnterStates(entering, left.config, out)
        raised == left.raised \o TransitionContent(ts) \o entered.raised
    IN /\ config' = entered.config
       /\ hist' = left.hist
       /\ queue' = q \o raised
       /\ output' = entered.output
       /\ last' = [taken |-> ts, kept |-> left.config, entered |-> entering, raised |-> raised]

-----------------------------------------------------------------------------
(* The event loops *)

NoStep == [taken |-> {}, kept |-> {}, entered |-> {}, raised |-> <<>>]

\* The guards that a selection may call: on active states and their ancestors.
Guarded == {t \in chart : t.guarded /\ \E n \in config : t.source \in {n} \cup Ancestors[n]}

Init ==
    /\ chart \in Charts
    /\ config = {}
    /\ hist = [h \in History |-> {}]
    /\ queue = <<>>
    /\ phase = "new"
    /\ iterations = 0
    /\ output = NoNode
    /\ committed = [config |-> {}, hist |-> hist, output |-> NoNode]
    /\ last = NoStep

\* After n microsteps the limit, if there is one, is reached.
Spent(n) == MaxIterations # Unlimited /\ n >= MaxIterations

\* _consume_iteration, then the microstep.  (With a limit of 0 a machine can
\* never start.)
Take(ts, q, out, n) ==
    /\ ~Spent(n)           \* Exceeded otherwise
    /\ iterations' = n + 1
    /\ Microstep(ts, q, out)
    /\ phase' = "macrostep"

\* Mutant of Exceeded: the macrostep starts over from the last snapshot.
ExceededRetries ==
    /\ Spent(iterations)
    /\ config' = committed.config
    /\ hist' = committed.hist
    /\ output' = committed.output
    /\ queue' = <<>>
    /\ iterations' = 0
    /\ last' = NoStep
    /\ UNCHANGED phase

\* InfiniteLoopError: the working copies are dropped.  The machine keeps the
\* snapshot it had, or none when it was computing the initial one.
Exceeded ==
    /\ Spent(iterations)
    /\ phase' = IF committed.config = {} THEN "new" ELSE "settled"
    /\ config' = committed.config
    /\ hist' = committed.hist
    /\ output' = committed.output
    /\ queue' = <<>>
    /\ iterations' = 0
    /\ last' = NoStep

InitialTransition ==
    [event |-> Eventless, source |-> Root, internal |-> FALSE, guarded |-> FALSE,
     in |-> NoNode, raises |-> <<>>, order |-> 0,
     targets |-> {InitialOf(Root)}]

\* initial_event_loop.
Start ==
    /\ phase = "new"
    /\ Take({InitialTransition}, <<>>, NoNode, 0)
    /\ UNCHANGED <<chart, committed>>

\* main_event_loop: an external event and its own transitions.  The output
\* starts from None again.
Receive(e) ==
    /\ phase = "settled"
    /\ \E held \in SUBSET Guarded :
         LET ts == Filtered(SelectFor(e, held), config, hist) IN
         IF ts # {} THEN Take(ts, <<>>, NoNode, 0)
         ELSE /\ phase' = "macrostep"
              /\ iterations' = 0
              /\ output' = NoNode
              /\ last' = NoStep
              /\ UNCHANGED <<config, hist, queue>>
    /\ UNCHANGED <<chart, committed>>

\* main_event_loop2: eventless transitions come first ...
EventlessStep ==
    /\ phase = "macrostep"
    /\ \E held \in SUBSET Guarded :
         LET ts == Filtered(SelectEventless(held), config, hist) IN
         /\ ts # {}
         /\ Take(ts, queue, output, iterations) \/ Exceeded
    /\ UNCHANGED <<chart, committed>>

NoEventless == \E held \in SUBSET Guarded : Filtered(SelectEventless(held), config, hist) = {}

\* ... then the oldest internal event, which may select nothing ...
InternalStep ==
    /\ phase = "macrostep"
    /\ queue # <<>> /\ NoEventless
    /\ \E held \in SUBSET Guarded :
         LET ts == Filtered(SelectFor(Head(queue), held), config, hist) IN
         IF ts # {} THEN Take(ts, Tail(queue), output, iterations) \/ Exceeded
         ELSE /\ queue' = Tail(queue)
              /\ last' = NoStep
              /\ UNCHANGED <<config, hist, output, phase, iterations>>
    /\ UNCHANGED <<chart, committed>>

\* State.__init__: a snapshot has an output only when the root is final.
Snapshot == [config |-> config, hist |-> hist,
             output |-> IF IsInFinal(Root, config) THEN output ELSE NoNode]

\* ... and the macrostep ends when there is neither.
Settle ==
    /\ phase = "macrostep"
    /\ queue = <<>> /\ NoEventless
    /\ phase' = "settled"
    /\ committed' = Snapshot
    /\ iterations' = 0
    /\ last' = NoStep
    /\ UNCHANGED <<chart, config, hist, queue, output>>

Next ==
    \/ Start \/ EventlessStep \/ InternalStep \/ Settle
    \/ \E e \in External : Receive(e)

Spec == Init /\ [][Next]_vars

\* Inside a macrostep the loop runs by itself.  This is weak fairness of
\* EventlessStep \/ InternalStep \/ Settle, one of which can always be taken
\* in a macrostep, written without ENABLED (which TLC evaluates slowly here).
Fairness == <>[](phase = "macrostep") => []<><<phase = "macrostep">>_vars

-----------------------------------------------------------------------------
(* Properties *)

TypeOK ==
    /\ config \subseteq Node \ History
    /\ hist \in [History -> SUBSET (Node \ History)]
    /\ phase \in {"new", "macrostep", "settled"}
    /\ iterations \in Nat
    /\ MaxIterations # Unlimited => iterations <= MaxIterations
    /\ output \in Node \cup {NoNode}
    /\ DOMAIN committed = {"config", "hist", "output"}
    /\ last.entered \subseteq Node

Active == phase \in {"macrostep", "settled"}

\* Below n, the active states form a complete tree: one child of a compound
\* state, every child of a parallel state, and no orphan.
LegalBelow(n, conf) ==
    \A m \in {x \in conf : x = n \/ IsDescendant(x, n)} :
        /\ m # n => Parent[m] \in conf
        /\ Kind[m] = "compound" => Cardinality(Kids[m] \cap conf) = 1
        /\ Kind[m] = "parallel" => Kids[m] \subseteq conf

\* After every microstep the configuration is a legal one of the whole tree,
\* whatever mix of history, parallel and competing transitions led there.
\* (get_value_from_adj raises, and atomic states are lost, otherwise.)  The
\* root is in it, unless the snapshot it comes from had lost it.
LegalConfiguration ==
    Active => /\ LegalBelow(Root, config \cup {Root})
              /\ Root \in config \/ (committed.config # {} /\ Root \notin committed.config)

\* scxml.md, 46: "source/document order is preserved for transition selection
\* and conflict resolution".  Of the transitions that an event enables, those
\* taken do not exit a state twice, and one is dropped only for a taken one
\* that it conflicts with, whose source is below its own, or, when neither is
\* below the other, comes first in the document.
ConflictsResolved ==
    Active => \A e \in External :
        LET able == SelectFor(e, Guarded)
            taken == Filtered(able, config, hist)
            exits == [t \in able |-> ExitSet({t}, config, hist)]
            Rivals(t, u) == t # u /\ exits[t] \cap exits[u] # {}
        IN /\ \A t, u \in taken : ~Rivals(t, u)
           /\ \A t \in able \ taken : \E u \in taken :
                  /\ Rivals(t, u)
                  /\ \/ IsDescendant(u.source, t.source)
                     \/ /\ ~IsDescendant(t.source, u.source)
                        /\ Order[u.source] < Order[t.source]

\* What history remembers can be restored: with its ancestors it is a legal
\* configuration of the parent of the history node.
HistoryRestorable ==
    \A h \in History :
        hist[h] # {} =>
            LET p == Parent[h]
                up == UNION {ProperAncestors(s, p) : s \in hist[h]}
            IN IF h \in Deep
               THEN LegalBelow(p, {p} \cup up \cup hist[h])
               ELSE /\ hist[h] \subseteq Kids[p]
                    /\ Kind[p] = "compound" => Cardinality(hist[h]) = 1
                    /\ Kind[p] = "parallel" => hist[h] = Kids[p]

\* scxml.md, 73: affected branches "exit and re-enter correctly".  No state
\* is entered while it is active: its entry actions run again only after its
\* exit actions.
EnteredOnce == last.entered \cap last.kept = {}

\* A microstep raises done.state.n exactly when it completes n (n is in a
\* final configuration after it and was not without the states it entered),
\* and once, however many regions complete together.
DoneOnceCompleted ==
    \A n \in Node :
        Cardinality({i \in DOMAIN last.raised : last.raised[i] = Done(n)})
          = IF last.taken # {} /\ IsInFinal(n, config) /\ ~IsInFinal(n, last.kept)
            THEN 1 ELSE 0

\* runtimes.md, 153: max_iterations makes a macrostep "fail before" it
\* executes more microsteps than that.  With a limit every macrostep ends,
\* settled or refused, however its raised, done and eventless transitions feed
\* one another.  Without one (the default) it may go on for ever.
MacrostepEnds ==
    MaxIterations # Unlimited => (phase = "macrostep" ~> phase # "macrostep")

\* state.py, 77: "for compound roots the final child carries donedata".  A
\* completed machine that receives another event forgets its output, because
\* main_event_loop starts every macrostep from None.
CompletedHasOutput ==
    phase = "settled" =>
        \A n \in committed.config :
            Kind[n] = "final" /\ Parent[n] = Root => committed.output = n
=============================================================================
