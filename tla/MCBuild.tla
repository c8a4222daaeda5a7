------------------------------- MODULE MCBuild -------------------------------
(***************************************************************************)
(* A project of two sources, a dialect one and a plain one, in several     *)
(* layouts: out beside src, inside src, around src, and the same           *)
(* directory; and two sources whose outputs have the same name.            *)
(***************************************************************************)
EXTENDS Build

\* ok   accepted, low its output     imp  rejected, with a safe fix-it
\* rej  rejected by some stage         ovl  accepted, its fix-its overlap
MCAuthorText == {"none", "ok", "imp", "rej", "ovl"}
PlainText    == {"none", "ok", "rej"}
Manifests    == {"m--", "ma-", "m-b", "mab"}
MCText       == (MCAuthorText \ {"none"}) \cup {"low"} \cup Manifests

IsPlain(f)    == f \notin {"s/a.fsol", "o/s/a.fsol"}
MCErrors(u)   == \E f \in DOMAIN u : u[f] \in {"imp", "rej", "torn"}
MCLower(f, u) == IF u[f] = "torn" THEN "rej"
                 ELSE IF IsPlain(f) THEN u[f] ELSE "low"
MCFixes(u)    == IF \E f \in DOMAIN u : u[f] \in {"rej", "torn"} THEN {}
                 ELSE {f \in DOMAIN u : u[f] \in {"imp", "ovl"}}
MCFixed(t)    == IF t = "imp" THEN "ok" ELSE "none"
MCManifestOf(u) ==
    LET a == "s/a.fsol" \in DOMAIN u
        b == DOMAIN u \ {"s/a.fsol"} # {}
    IN IF a /\ b THEN "mab" ELSE IF a THEN "ma-" ELSE IF b THEN "m-b" ELSE "m--"

-----------------------------------------------------------------------------
\* out and src are the same directory
SameOrder == <<"s/a.fsol", "s/b.sol">>
SamePath  == {"s/a.fsol", "s/b.sol", "s/a.sol", "s/manifest"}
SameRel   == [f \in {"s/a.fsol", "s/b.sol"} |->
                IF f = "s/a.fsol" THEN "s/a.sol" ELSE f]
SameDisks == {[f \in SamePath |-> IF f \in {"s/a.fsol", "s/b.sol"} THEN "ok" ELSE "none"]}

-----------------------------------------------------------------------------
\* out is s/o; its files are Solidity sources that the globs admit
NestOrder == <<"s/a.fsol", "s/b.sol", "s/o/a.sol", "s/o/b.sol">>
NestOut   == {"s/o/a.sol", "s/o/b.sol", "s/o/o/x.sol", "s/o/manifest"}
NestPath  == NestOut \cup {"s/a.fsol", "s/b.sol"}
NestRel   == [f \in {NestOrder[i] : i \in DOMAIN NestOrder} |->
                CASE f = "s/a.fsol" -> "s/o/a.sol" [] f = "s/b.sol" -> "s/o/b.sol"
                  [] OTHER -> "s/o/o/x.sol"]

\* nothing built yet; built; stale; half-written
NestTree(a, b, oa, ob, m) ==
    [f \in NestPath |-> CASE f = "s/a.fsol" -> a [] f = "s/b.sol" -> b
                          [] f = "s/o/a.sol" -> oa [] f = "s/o/b.sol" -> ob
                          [] f = "s/o/manifest" -> m [] OTHER -> "none"]
AllDisks ==
    {NestTree(a, b, "none", "none", "none") : a \in {"ok", "ovl", "rej"}, b \in PlainText}
    \cup {NestTree("imp", "ok", oa, "ok", m) : oa \in {"torn", "low", "none"},
                                               m \in {"torn", "m-b", "mab"}}

-----------------------------------------------------------------------------
\* src is o/s
AroundOrder == <<"o/s/a.fsol">>
AroundPath  == {"o/s/a.fsol", "o/a.sol", "o/manifest"}
AroundRel   == [f \in {"o/s/a.fsol"} |-> "o/a.sol"]
AroundDisks == {[f \in AroundPath |-> IF f = "o/s/a.fsol" THEN "ok" ELSE "none"]}

-----------------------------------------------------------------------------
\* two sources with one output
TwinOrder == <<"s/a.fsol", "s/a.sol">>
TwinOut   == {"o/a.sol", "o/manifest"}
TwinPath  == TwinOut \cup {"s/a.fsol", "s/a.sol"}
TwinRel   == [f \in {"s/a.fsol", "s/a.sol"} |-> "o/a.sol"]
TwinDisks == {[f \in TwinPath |-> IF f \in {"s/a.fsol", "s/a.sol"} THEN "ok" ELSE "none"]}
=============================================================================
