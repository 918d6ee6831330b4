-------------------------- MODULE MCTemporalGraph --------------------------
EXTENDS TemporalGraph, TLC

CONSTANTS a, b, g, core

At(line) == [defs |-> {<<g, line>>}, calls |-> {}]
Caller == [defs |-> {}, calls |-> {g}]
Both == [defs |-> {<<g, 2>>}, calls |-> {g}]

MCContents == {At(1), Caller, Both}
MCFirstTree == (a :> At(1)) @@ (b :> Caller)
MCLayerOf == [f \in File |-> core]
=============================================================================
