------------------------------ MODULE ChainLog ------------------------------
(***************************************************************************)
(* The lines of a coordination ledger, coordination/ledger.jsonl: each is  *)
(* one published record with the chain it belongs to.  after, the tip the  *)
(* writer expected its chain to have, is not a field of the line; it is    *)
(* kept to state what the order of the lines means.                        *)
(***************************************************************************)
EXTENDS Naturals, Sequences

CONSTANTS
    Key,        \* record identities, a (kind, id) pair each
    Chain,      \* chain identities, opaque to the Store
    Body,       \* canonical record bodies
    None        \* the absent value

ASSUME AbsentAssumption == None \notin Key \cup Body

Entry == [key : Key, chain : Chain, body : Body, after : Key \cup {None}]

(* The lines that claim identity k. *)
Match(log, k) == {i \in DOMAIN log : log[i].key = k}

(* k is the tip of chain c after the first n lines: the last line carrying *)
(* the chain, or None if there is none.                                    *)
TipIs(log, n, c, k) ==
    LET members == {i \in 1 .. n : log[i].chain = c} IN
    IF members = {} THEN k = None
    ELSE \E i \in members : (\A j \in members : j <= i) /\ log[i].key = k
=============================================================================
