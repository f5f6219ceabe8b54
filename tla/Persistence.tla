----------------------------- MODULE Persistence -----------------------------
(***************************************************************************)
(* Checkpoints of a machine: src/src/xstate/snapshot.py with the value      *)
(* functions of algorithm.py and machine.py, over the charts of Statechart. *)
(*                                                                         *)
(* Every snapshot the machine returns is serialised to a store that         *)
(* survives; the process may go down at any point, in the middle of a       *)
(* macrostep too, and a new machine resumes from what the store has.        *)
(* Donedata are static: a callable output is not restored.                  *)
(***************************************************************************)
EXTENDS Statechart

\* The active children of n.  The root need not be in conf.
ActiveChildren(n, conf) == {c \in conf : c # Root /\ Parent[c] = n}

\* A state value is the key of an atomic child, or a dictionary by key.
Key(n) == [key |-> n]
Dictionary(f) == [dict |-> f]

\* get_value_from_adj.
StateValue(n, conf) ==
    LET value[m \in Node] ==
            LET below == ActiveChildren(m, conf) IN
            IF Kind[m] = "compound" /\ \E c \in below : IsAtomic(c)
            THEN Key(CHOOSE c \in below : TRUE)
            ELSE Dictionary([c \in below |-> value[c]])
    IN value[n]

\* The states that a value names for its own node.
Named(value) == IF "key" \in DOMAIN value THEN {value.key} ELSE DOMAIN value.dict

\* _get_configuration: the nodes a value names, each below its parent.
Configuration(value) ==
    LET at[n \in Node] ==   \* the part of the value that is that of n
            IF n = Root THEN value
            ELSE LET v == at[Parent[n]] IN
                 IF "dict" \in DOMAIN v /\ n \in DOMAIN v.dict THEN v.dict[n]
                 ELSE Dictionary(<<>>)
    IN {n \in Node \ {Root} : n \in Named(at[Parent[n]])}

Serialize(s) == [value |-> StateValue(Root, s.config),
                 hist |-> [h \in {g \in History : s.hist[g] # {}} |-> s.hist[h]]]

\* Mutant of Deserialize: what history recorded is not restored.
DeserializeForgets(data) ==
    LET conf == Configuration(data.value)
        final == {n \in conf : Kind[n] = "final" /\ Parent[n] = Root}
    IN [config |-> conf,
        hist |-> [h \in History |-> {}],
        output |-> IF final = {} THEN NoNode ELSE CHOOSE n \in final : TRUE]

\* The root is in no value.  Status and output are derived again.
Deserialize(data) ==
    LET conf == Configuration(data.value)
        final == {n \in conf : Kind[n] = "final" /\ Parent[n] = Root}
    IN [config |-> conf,
        hist |-> [h \in History |-> IF h \in DOMAIN data.hist THEN data.hist[h] ELSE {}],
        output |-> IF final = {} THEN NoNode ELSE CHOOSE n \in final : TRUE]

\* The process has gone down; start(initial_state) takes the restored snapshot.
Restart ==
    /\ committed.config # {}
    /\ LET s == Deserialize(Serialize(committed)) IN
       /\ committed' = s
       /\ config' = s.config /\ hist' = s.hist /\ output' = s.output
    /\ queue' = <<>> /\ phase' = "settled" /\ iterations' = 0 /\ last' = NoStep
    /\ UNCHANGED chart

PNext == Next \/ Restart

PSpec == Init /\ [][PNext]_vars /\ Fairness

-----------------------------------------------------------------------------
(* Properties *)

\* persistence.md, 77: from the checkpoint of any snapshot the active states
\* below the root and the known history nodes are reconstructed, whatever mix
\* of regions, final states and history is active, and however often the
\* machine was restored before; and a completed machine is completed again.
CheckpointRestores ==
    committed.config # {} =>
        LET s == Deserialize(Serialize(committed)) IN
        /\ s.config \ {Root} = committed.config \ {Root}
        /\ s.hist = committed.hist
        /\ IsInFinal(Root, s.config) <=> IsInFinal(Root, committed.config)
=============================================================================
