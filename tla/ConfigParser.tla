---------------------------- MODULE ConfigParser ----------------------------
(***************************************************************************)
(* src/src/xstate/config_parser.py: what Machine(config) makes of a dict.  *)
(* The ids of the states, which of them a target names, which descriptors  *)
(* the transitions listen to, and the numbers that order them.             *)
(*                                                                         *)
(* A config is a function from the paths of its states (sequences of keys,  *)
(* <<>> is the root) to what the dict of the state has: a record with the   *)
(* fields it gives, `states` the keys of its children in order.  A value     *)
(* that may be a list or stand alone is the list _as_list makes of it.      *)
(***************************************************************************)
EXTENDS Naturals, Sequences, FiniteSets, SequencesExt, TLC

CONSTANT NoNode   \* None

\* dict.get
Get(dict, key, default) == IF key \in DOMAIN dict THEN dict[key] ELSE default

-----------------------------------------------------------------------------
(* The tree *)

ChildPaths(cfg, p) ==
    LET keys == Get(cfg[p], "states", <<>>) IN [i \in DOMAIN keys |-> Append(p, keys[i])]

NodeType(cfg, p) ==
    Get(cfg[p], "type", IF ChildPaths(cfg, p) = <<>> THEN "atomic" ELSE "compound")

\* _build_node: a node, then its children.
BuiltFrom(cfg) ==
    LET doc[p \in DOMAIN cfg] ==
            FoldLeft(LAMBDA ps, c : ps \o doc[c], <<p>>, ChildPaths(cfg, p))
    IN doc

Built(cfg) == BuiltFrom(cfg)[<<>>]

\* The id a node gives itself, or its key after the id of its parent.
Ids(cfg) ==
    LET add(id, p) == id @@ p :> Get(cfg[p], "id", id[Front(p)] \o "." \o Last(p))
    IN FoldLeft(add, <<>>, Built(cfg))

\* _resolve_node: the children, then the node.
ResolvedFrom(cfg) ==
    LET doc[p \in DOMAIN cfg] ==
            Append(FoldLeft(LAMBDA ps, c : ps \o doc[c], <<>>, ChildPaths(cfg, p)), p)
    IN doc

Resolved(cfg) == ResolvedFrom(cfg)[<<>>]

\* The tree under construction: what the second pass reads of the first one.
Tree(cfg) == [config |-> cfg, nodes |-> Built(cfg), id |-> Ids(cfg)]

\* The node registered under an id: the last one, when several have it.
ById(tree, name) ==
    LET named == SelectSeq(tree.nodes, LAMBDA p : tree.id[p] = name)
    IN IF named = <<>> THEN {} ELSE {Last(named)}

-----------------------------------------------------------------------------
(* Targets: "#id", ".key.key" below the source, or "key.key" beside it *)

Hash(name) == [id |-> name]
Under(keys) == [keys |-> keys, own |-> TRUE]
Beside(keys) == [keys |-> keys, own |-> FALSE]

\* _get_relative, the empty set when there is no such state.
Relative(tree, p, ref) ==
    IF "id" \in DOMAIN ref THEN ById(tree, ref.id)
    ELSE LET base == IF ref.own \/ p = <<>> THEN p ELSE Front(p)
         IN {base \o ref.keys} \cap DOMAIN tree.config

\* _resolve_targets, as ids.
TargetIds(tree, p, refs) ==
    {tree.id[q] : q \in UNION {Relative(tree, p, ref) : ref \in ToSet(refs)}}

InitialKey(cfg, p) == Get(cfg[p], "initial", Head(cfg[p].states))

-----------------------------------------------------------------------------
(* Event descriptors: tokens, and whether a wildcard follows them *)

Eventless == [tokens |-> <<>>, wild |-> FALSE]
Exactly(tokens) == [tokens |-> tokens, wild |-> FALSE]
Done(n) == <<"done", "state", n>>
AfterEvent(delay, n) == <<"xstate", "after(" \o ToString(delay) \o ")#" \o n>>

-----------------------------------------------------------------------------
(* Transitions, as declared: a descriptor and the raw transition under it *)

Listens(descriptor, raws) ==
    [i \in DOMAIN raws |-> [event |-> descriptor, raw |-> raws[i]]]

\* _build_invoke: the handlers of each invocation, under its id.
InvokeHandlers(tree, p) ==
    LET invokes == Get(tree.config[p], "invoke", <<>>)
        name(i) == Get(invokes[i], "id",
                       tree.id[p] \o ":invocation[" \o ToString(i - 1) \o "]")
        handlers(i) ==
            Listens(Exactly(<<"done", "invoke", name(i)>>), Get(invokes[i], "onDone", <<>>))
            \o Listens(Exactly(<<"error", "platform", name(i)>>), Get(invokes[i], "onError", <<>>))
            \o Listens(Exactly(<<"snapshot", "invoke", name(i)>>),
                       Get(invokes[i], "onSnapshot", <<>>))
    IN FlattenSeq([i \in DOMAIN invokes |-> handlers(i)])

\* _build_after: one event for each delay of the state.
AfterHandlers(tree, p) ==
    LET after == Get(tree.config[p], "after", <<>>)
    IN FlattenSeq([i \in DOMAIN after |->
           Listens(Exactly(AfterEvent(after[i].delay, tree.id[p])), after[i].raws)])

\* _build_configured_transitions.
Declared(tree, p) ==
    LET on == Get(tree.config[p], "on", <<>>) IN
    FlattenSeq([i \in DOMAIN on |-> Listens(on[i].event, on[i].raws)])
    \o Listens(Eventless, Get(tree.config[p], "always", <<>>))
    \o Listens(Exactly(Done(tree.id[p])), Get(tree.config[p], "onDone", <<>>))
    \o InvokeHandlers(tree, p) \o AfterHandlers(tree, p)

TransitionType(raw) == Get(raw, "type", "external")

\* _make_transition.
MakeTransition(tree, p, declared, order) ==
    LET raw == declared.raw IN
    [event |-> declared.event,
     source |-> tree.id[p],
     targets |-> TargetIds(tree, p, Get(raw, "target", <<>>)),
     internal |-> TransitionType(raw) = "internal",
     guarded |-> "guard" \in DOMAIN raw,
     in |-> Get(raw, "in", NoNode),
     raises |-> Get(raw, "actions", <<>>),
     order |-> order]

\* _add_transition: nodes and transitions are numbered by one counter.
Transitions(cfg) ==
    LET tree == Tree(cfg)
        of(p) == LET d == Declared(tree, p) IN [i \in DOMAIN d |-> <<p, d[i]>>]
        all == FoldLeft(LAMBDA ts, p : ts \o of(p), <<>>, Resolved(cfg))
    IN {MakeTransition(tree, all[k][1], all[k][2], Len(tree.nodes) + k - 1) : k \in DOMAIN all}

-----------------------------------------------------------------------------
(* Machine(config) raises InvalidConfigError for any other config *)

\* The targets of the transitions of a node, its own when it is a history node.
Refs(tree, p) ==
    UNION {ToSet(Get(d.raw, "target", <<>>)) : d \in ToSet(Declared(tree, p))}
    \cup IF NodeType(tree.config, p) = "history"
         THEN ToSet(Get(tree.config[p], "target", <<>>)) ELSE {}

\* _build_invoke: the logic of every invocation is given.
Sourced(cfg, p) == \A inv \in ToSet(Get(cfg[p], "invoke", <<>>)) : "src" \in DOMAIN inv

\* _resolve_transition_type: no other type is known.
Typeable(tree, p) ==
    \A d \in ToSet(Declared(tree, p)) : TransitionType(d.raw) \in {"internal", "external"}

Accepted(cfg) ==
    LET tree == Tree(cfg) IN
    \A p \in DOMAIN cfg :
        /\ NodeType(cfg, p) \in {"atomic", "compound", "parallel", "final", "history"}
        /\ NodeType(cfg, p) = "compound" =>
               /\ ChildPaths(cfg, p) # <<>>
               /\ InitialKey(cfg, p) \in ToSet(cfg[p].states)
        /\ \A ref \in Refs(tree, p) : Relative(tree, p, ref) # {}
        /\ Sourced(cfg, p) /\ Typeable(tree, p)

-----------------------------------------------------------------------------
(* What the algorithm reads of the machine *)

\* A function on the ids of the nodes in `paths`, from one on paths.
ByNode(cfg, paths, Of(_)) ==
    LET ids == Ids(cfg)
        add(f, p) == IF p \in paths THEN f @@ ids[p] :> Of(p) ELSE f
    IN FoldLeft(add, <<>>, Built(cfg))

Typed(cfg, type) == {p \in DOMAIN cfg : NodeType(cfg, p) = type}

DocOf(cfg) == FoldLeft(LAMBDA doc, p : Append(doc, Ids(cfg)[p]), <<>>, Built(cfg))
KindOf(cfg) == ByNode(cfg, DOMAIN cfg, LAMBDA p : NodeType(cfg, p))
ParentOf(cfg) == ByNode(cfg, DOMAIN cfg \ {<<>>}, LAMBDA p : Ids(cfg)[Front(p)])
InitialOfCompound(cfg) ==
    ByNode(cfg, Typed(cfg, "compound"), LAMBDA p : Ids(cfg)[Append(p, InitialKey(cfg, p))])
DeepOf(cfg) == {Ids(cfg)[p] : p \in {q \in Typed(cfg, "history") :
                                       Get(cfg[q], "history", "shallow") = "deep"}}
HistoryTargetOf(cfg) ==
    ByNode(cfg, Typed(cfg, "history"),
           LAMBDA p : TargetIds(Tree(cfg), p, Get(cfg[p], "target", <<>>)))
RaisesOf(cfg, field) == ByNode(cfg, DOMAIN cfg, LAMBDA p : Get(cfg[p], field, <<>>))
=============================================================================
