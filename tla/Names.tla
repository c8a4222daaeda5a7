-------------------------------- MODULE Names --------------------------------
(***************************************************************************)
(* What a name means (fhec-bind: binder.rs, inherit.rs, unit.rs) and        *)
(* whether a generated call may be written with it (fhec-check: trust.rs,   *)
(* emit_trust.rs; spec 1.3).  The binder sees the files of the unit only:   *)
(* an import or a base outside it may hold anything.  A resolution is a     *)
(* fact, never a guess: here one name is followed through the passes of     *)
(* bind and the walk of one function, and compared with what Solidity       *)
(* resolves it to in every world the unseen files may turn out to be.       *)
(***************************************************************************)
EXTENDS Integers, Sequences, FiniteSets, SequencesExt, FiniteSetsExt

CONSTANTS
    Units,     \* the units considered, family by family
    Worlds     \* what the unseen base "X" and the unseen "vendor" may declare

VARIABLES
    unit,      \* the files, the contracts and the function
    pass,      \* the pass of bind that comes next
    bound,     \* the import bindings of each file
    lin,       \* the linearization of each contract
    scopes,    \* the block scopes of the walk, innermost last
    rest,      \* what is left of the body
    found,     \* the resolution of each use, by its place in the body
    refused    \* whether a generated call was refused (FHE1022)

vars == <<unit, pass, bound, lin, scopes, rest, found, refused>>

\* A unit has files, each with what it declares under "N" (the name followed)
\* and "M", and its imports; contracts, with their members named N and their
\* bases, in order of writing; and a function.
Files          == DOMAIN unit.files
Own(f, n)      == unit.files[f].own[n]
Imports(f)     == unit.files[f].imports
Contracts      == DOMAIN unit.contracts
Members(c)     == unit.contracts[c].members
Bases(c)       == unit.contracts[c].bases
Opaque(c)      == \E i \in DOMAIN Bases(c) : Bases(c)[i] \notin Contracts

-----------------------------------------------------------------------------
(* Resolutions.                                                            *)

Decl(ds)          == [is |-> "decl", of |-> ds]
External(s, n)    == [is |-> "external", from |-> s, member |-> n]
Namespace(f)      == [is |-> "namespace", of |-> f]
Builtin           == [is |-> "builtin"]
NotFound          == [is |-> "notfound"]
Unsure(why)       == [is |-> "unsure", why |-> why]
MaybeExternal(ss) == [is |-> "maybe", from |-> ss]
Incomplete(r)     == [is |-> "incomplete", fallback |-> r]

Overloads(r) == r.is = "decl" /\ \A d \in r.of : d.kind = "fn"

\* insert_into: overloads of a name collect; any other second entry is a
\* duplicate (FHE1020), and the first stays.
Insert(old, new) ==
    IF old = NotFound THEN new
    ELSE IF Overloads(old) /\ Overloads(new) THEN Decl(old.of \cup new.of)
    ELSE old

-----------------------------------------------------------------------------
(* Imports.                                                                *)

PlainFrom(f) == {Imports(f)[i].from : i \in {j \in DOMAIN Imports(f) : Imports(f)[j].kind = "plain"}}

RECURSIVE Closed(_)
Closed(fs) == LET more == fs \cup UNION {PlainFrom(f) \cap Files : f \in fs}
              IN IF more = fs THEN fs ELSE Closed(more)

\* plain_closure: the files merged into f, and the specifiers of unseen files
\* reached through them.
Reachable(f) == Closed({f}) \ {f}
Exposure(f)  == UNION {PlainFrom(g) \ Files : g \in Closed({f})}

\* What the files merged into f declare; two declarations make it ambiguous.
Merged(f) ==
    LET all == {Own(g, "N") : g \in Reachable(f)} \ {{}}
    IN CASE all = {}             -> NotFound
         [] Cardinality(all) = 1 -> Decl(CHOOSE ds \in all : TRUE)
         [] OTHER                -> Unsure("ambiguous")

\* bind_import_entry.  What an imported file imports itself is not chased.
Entry(e) ==
    IF e.from \notin Files
    THEN External(e.from, IF e.kind = "names" THEN e.orig ELSE "none")
    ELSE IF e.kind = "names"
    THEN IF Own(e.from, e.orig) # {} THEN Decl(Own(e.from, e.orig))
         ELSE IF Imports(e.from) # << >> THEN Unsure("reexport")
         ELSE Unsure("failed")
    ELSE Namespace(e.from)

BindImports(f) ==
    FoldLeft(LAMBDA r, e : IF e.kind = "plain" THEN r ELSE Insert(r, Entry(e)),
             Merged(f), Imports(f))

\* resolve_at_file.
AtFile(f) ==
    CASE Own(f, "N") # {}     -> Decl(Own(f, "N"))
      [] bound[f] # NotFound  -> bound[f]
      [] unit.builtin         -> Builtin
      [] Exposure(f) # {}     -> MaybeExternal(Exposure(f))
      [] OTHER                -> NotFound

-----------------------------------------------------------------------------
(* Inheritance.  "none" stands for an order that does not exist.           *)

None == <<"none">>

\* Fault: takes the first head there is.
RECURSIVE MergeGreedy(_)
MergeGreedy(seqs) ==
    LET ss == SelectSeq(seqs, LAMBDA s : s # << >>)
    IN IF ss = << >> THEN << >>
       ELSE LET head == Head(ss[1])
                tail == MergeGreedy([i \in DOMAIN ss |-> SelectSeq(ss[i], LAMBDA c : c # head)])
            IN <<head>> \o tail

\* C3: repeatedly the first head that is in no tail.
RECURSIVE Merge(_)
Merge(seqs) ==
    LET ss    == SelectSeq(seqs, LAMBDA s : s # << >>)
        good  == {i \in DOMAIN ss : \A j \in DOMAIN ss : Head(ss[i]) \notin ToSet(Tail(ss[j]))}
        head  == Head(ss[Min(good)])
        tail  == Merge([i \in DOMAIN ss |-> SelectSeq(ss[i], LAMBDA c : c # head)])
    IN IF ss = << >> THEN << >>
       ELSE IF good = {} \/ tail = None THEN None
       ELSE <<head>> \o tail

\* c3_linearize, over any bases: the last one written is the most derived.
RECURSIVE Order(_, _, _)
Order(c, bases, above) ==
    LET reversed == Reverse(bases[c])
        orders   == [i \in DOMAIN reversed |-> Order(reversed[i], bases, above \cup {c})]
        merged   == Merge(orders \o <<reversed>>)
    IN IF c \in above \/ \E i \in DOMAIN orders : orders[i] = None THEN None
       ELSE IF merged = None THEN None ELSE <<c>> \o merged

InUnitBases == [c \in Contracts |-> SelectSeq(Bases(c), LAMBDA b : b \in Contracts)]

\* completeness.
RECURSIVE Complete(_, _)
Complete(c, above) ==
    c \notin above /\ ~Opaque(c) /\ \A i \in DOMAIN Bases(c) : Complete(Bases(c)[i], above \cup {c})

Linearize(c) ==
    LET order == IF Complete(c, {}) THEN Order(c, InUnitBases, {}) ELSE None
    IN IF order = None THEN [order |-> <<c>>, complete |-> FALSE] ELSE [order |-> order, complete |-> TRUE]

\* inheritable_own_member, inherited_member.
Inheritable(c) == {d \in Members(c) : ~d.private}
Inherited(c) ==
    LET having == {i \in 2..Len(lin[c].order) : Inheritable(lin[c].order[i]) # {}}
    IN IF having = {} THEN {} ELSE Inheritable(lin[c].order[Min(having)])

\* member_in_known_prefix: what precedes every unseen base, wherever the
\* unseen one turns out to be linearized.
RECURSIVE KnownPrefix(_, _, _)
KnownPrefix(c, withOwn, above) ==
    CASE c \in above                     -> {}
      [] withOwn /\ Inheritable(c) # {}  -> Inheritable(c)
      [] lin[c].complete                 -> Inherited(c)
      [] Bases(c) = << >>                -> {}
      [] Last(Bases(c)) \notin Contracts -> {}
      [] Len(Bases(c)) = 1               -> KnownPrefix(Bases(c)[1], TRUE, above \cup {c})
      [] OTHER                           -> Inheritable(Last(Bases(c)))

\* known_ancestor_member: declared anywhere in the visible hierarchy.
RECURSIVE Ancestors(_)
Ancestors(cs) == LET more == cs \cup (UNION {ToSet(Bases(c)) : c \in cs} \cap Contracts)
                 IN IF more = cs THEN cs ELSE Ancestors(more)
KnownAncestor(c) == \E a \in Ancestors({c}) : Inheritable(a) # {}

-----------------------------------------------------------------------------
(* Names in a function of contract c ("none": a free function) of "main".   *)

\* Fault: past an unseen base, what the file says.
InContractPast(c) ==
    CASE c = "none"                 -> AtFile("main")
      [] Members(c) # {}            -> Decl(Members(c))
      [] lin[c].complete            -> IF Inherited(c) # {} THEN Decl(Inherited(c)) ELSE AtFile("main")
      [] OTHER                      -> IF KnownPrefix(c, FALSE, {}) # {}
                                       THEN Decl(KnownPrefix(c, FALSE, {}))
                                       ELSE AtFile("main")

InContract(c) ==
    CASE c = "none"                 -> AtFile("main")
      [] Members(c) # {}            -> Decl(Members(c))
      [] lin[c].complete            -> IF Inherited(c) # {} THEN Decl(Inherited(c)) ELSE AtFile("main")
      [] OTHER                      -> IF KnownPrefix(c, FALSE, {}) # {}
                                       THEN Decl(KnownPrefix(c, FALSE, {}))
                                       ELSE Incomplete(AtFile("main"))

\* resolve_name, in the scopes of the walk.
Resolve ==
    LET having == {i \in DOMAIN scopes : scopes[i] # {}}
    IN IF having # {} THEN Decl(scopes[Max(having)]) ELSE InContract(unit.fn.of)

\* resolve_name_in_scope: any local of the function counts, wherever it is.
Local(i)   == [at |-> "local", n |-> i, kind |-> "var", sig |-> 0, private |-> FALSE]
Locals     == {Local(i) : i \in {j \in DOMAIN unit.fn.body : unit.fn.body[j] = "declare"}}
                 \cup (IF unit.fn.param THEN {Local(0)} ELSE {})
ResolveInScope == IF Locals # {} THEN Decl({CHOOSE d \in Locals : TRUE}) ELSE InContract(unit.fn.of)

-----------------------------------------------------------------------------
(* Trust.                                                                  *)

Trusted(s) == s = "profile"

RECURSIVE ResolutionTrusted(_)
ResolutionTrusted(r) ==
    CASE r.is = "external"   -> Trusted(r.from)
      [] r.is = "maybe"      -> \E s \in r.from : Trusted(s)
      [] r.is = "incomplete" -> ResolutionTrusted(r.fallback)
      [] OTHER               -> FALSE

RECURSIVE Unwrap(_)
Unwrap(r) == IF r.is = "incomplete" THEN Unwrap(r.fallback) ELSE r

\* is_fhe_library, with rule 4: a library of the unit that looks like it.
IsLibrary(r) ==
    \/ ResolutionTrusted(r)
    \/ Unwrap(r).is = "decl" /\ \A d \in Unwrap(r).of : d.kind = "library"

\* Fault: what a visible base declares is not asked for again.
RefusesHidden(r) == ~IsLibrary(r) /\ r # NotFound

\* check_one.
Refuses(r) ==
    \/ r.is = "incomplete" /\ KnownAncestor(unit.fn.of)
    \/ ~IsLibrary(r) /\ r # NotFound

-----------------------------------------------------------------------------
(* The passes.                                                             *)

Init ==
    /\ \E i \in DOMAIN Units : unit \in Units[i]
    /\ pass = "imports"
    /\ bound = [f \in Files |-> NotFound]
    /\ lin = [c \in Contracts |-> [order |-> <<c>>, complete |-> TRUE]]
    /\ scopes = << >> /\ rest = unit.fn.body
    /\ found = [i \in {} |-> NotFound] /\ refused = FALSE

ResolveImports ==
    /\ pass = "imports"
    /\ pass' = "inheritance"
    /\ bound' = [f \in Files |-> BindImports(f)]
    /\ UNCHANGED <<unit, lin, scopes, rest, found, refused>>

ResolveInheritance ==
    /\ pass = "inheritance"
    /\ pass' = "bodies"
    /\ lin' = [c \in Contracts |-> Linearize(c)]
    /\ UNCHANGED <<unit, bound, scopes, rest, found, refused>>

\* walk_bodies: the parameters and named returns share the body's scope.
EnterFunction ==
    /\ pass = "bodies"
    /\ pass' = "walk"
    /\ scopes' = <<IF unit.fn.param THEN {Local(0)} ELSE {}>>
    /\ UNCHANGED <<unit, bound, lin, rest, found, refused>>

Place == Len(unit.fn.body) - Len(rest) + 1
Walks(token) ==
    /\ pass = "walk" /\ rest # << >> /\ Head(rest) = token
    /\ rest' = Tail(rest)
    /\ UNCHANGED <<unit, pass, bound, lin, refused>>

OpenBlock  == Walks("open")  /\ scopes' = Append(scopes, {}) /\ UNCHANGED found
CloseBlock == Walks("close") /\ scopes' = Front(scopes) /\ UNCHANGED found

\* declare: a second declaration in a scope is reported and ignored.
Declare ==
    /\ Walks("declare")
    /\ scopes' = IF Last(scopes) # {} THEN scopes
                 ELSE [scopes EXCEPT ![Len(scopes)] = {Local(Place)}]
    /\ UNCHANGED found

Use ==
    /\ Walks("use")
    /\ found' = [i \in DOMAIN found \cup {Place} |-> IF i = Place THEN Resolve ELSE found[i]]
    /\ UNCHANGED scopes

\* emit_trust's scan, after the walk.
TrustEmission ==
    /\ pass = "walk" /\ rest = << >>
    /\ pass' = "done"
    /\ refused' = Refuses(ResolveInScope)
    /\ UNCHANGED <<unit, bound, lin, scopes, rest, found>>

Next == ResolveImports \/ ResolveInheritance \/ EnterFunction \/ OpenBlock \/ CloseBlock
           \/ Declare \/ Use \/ TrustEmission

Spec == Init /\ [][Next]_vars

-----------------------------------------------------------------------------
(* What Solidity resolves, in a world.                                     *)

Lib(n)  == [at |-> "profile", n |-> n, kind |-> "library", sig |-> 0, private |-> FALSE]
Alias(f) == [at |-> f, n |-> 0, kind |-> "namespace", sig |-> 0, private |-> FALSE]

\* The declarations a file makes visible under name n: its own and what it
\* imports, to the depth of an import chain without a cycle.
RECURSIVE Visible(_, _, _, _)
Visible(w, f, n, depth) ==
    CASE f = "profile" -> {Lib(n)}
      [] f = "vendor"  -> w.vendor[n]
      [] depth = 0     -> {}
      [] OTHER ->
           Own(f, n) \cup UNION {
             LET e == Imports(f)[i]
             IN CASE e.kind = "plain" -> Visible(w, e.from, n, depth - 1)
                  [] e.kind = "names" /\ n = "N" -> Visible(w, e.from, e.orig, depth - 1)
                  [] e.kind = "glob" /\ n = "N"  -> {Alias(e.from)}
                  [] OTHER -> {} : i \in DOMAIN Imports(f)}

FileSees(w, f) == Visible(w, f, "N", Cardinality(Files) + 1)

AllBases      == [c \in Contracts \cup {"X"} |-> IF c = "X" THEN << >> ELSE Bases(c)]
TrueOrder(c)  == Order(c, AllBases, {})
Declares(w, c) == IF c = "X" THEN w.X ELSE Members(c)

\* The members of c: overloads of all its bases, the most derived of each
\* signature.
ContractSees(w, c) ==
    LET order   == TrueOrder(c)
        seen(i) == {d \in Declares(w, order[i]) : i = 1 \/ ~d.private}
    IN UNION {{d \in seen(i) : d.kind # "fn" \/ \A j \in 1..(i - 1) : \A e \in seen(j) : e.sig # d.sig} :
                 i \in DOMAIN order}

\* solc accepts the unit: one declaration per name and scope, or overloads of
\* different signatures, and every import and every order exists.
OneMeaning(ds) ==
    \/ Cardinality(ds) <= 1
    \/ \A d \in ds : d.kind = "fn" /\ \A e \in ds : e.sig = d.sig => e = d
Depth(i) == Cardinality({j \in 1..i : unit.fn.body[j] = "open"})
              - Cardinality({j \in 1..i : unit.fn.body[j] = "close"})
\* The declaration at j is in a block that is still open at i.
Spans(j, i) == j < i /\ unit.fn.body[j] = "declare" /\ \A k \in j..i : Depth(k) >= Depth(j)
Accepted(w) ==
    /\ \A f \in Files : OneMeaning(FileSees(w, f))
    /\ \A f \in Files : \A i \in DOMAIN Imports(f) :
          LET e == Imports(f)[i]
          IN e.kind = "names" => Visible(w, e.from, e.orig, Cardinality(Files) + 1) # {}
    /\ \A c \in Contracts : TrueOrder(c) # None /\ OneMeaning(ContractSees(w, c))
    /\ \A i \in DOMAIN unit.fn.body : unit.fn.body[i] = "declare" =>
          /\ ~\E j \in DOMAIN unit.fn.body : Spans(j, i) /\ Depth(j) = Depth(i)
          /\ ~(unit.fn.param /\ Depth(i) = 0)

\* What the name means at a place of the body; {} when only a builtin or
\* nothing is left.
Means(w, i) ==
    LET locals == {j \in DOMAIN unit.fn.body : Spans(j, i)}
        c      == unit.fn.of
    IN CASE locals # {}                                -> {Local(Max(locals))}
         [] unit.fn.param                              -> {Local(0)}
         [] c # "none" /\ ContractSees(w, c) # {}      -> ContractSees(w, c)
         [] OTHER                                      -> FileSees(w, "main")

True(w, r, ds) ==
    CASE r.is = "decl"      -> r.of \subseteq ds /\ (Overloads(r) \/ r.of = ds)
      [] r.is = "external"  -> ds = IF r.member = "none" THEN {Alias(r.from)}
                                    ELSE Visible(w, r.from, r.member, 1)
      [] r.is = "namespace" -> ds = {Alias(r.of)}
      [] r.is \in {"builtin", "notfound"} -> ds = {}
      [] OTHER              -> TRUE

\* A resolution is a fact: in every world solc accepts, a use the binder
\* resolves means just that, as far as overloads go at least that, and a name
\* it finds nowhere means nothing (model.rs).
FactsNotGuesses ==
    pass = "done" =>
        \A w \in Worlds : Accepted(w) => \A i \in DOMAIN found : True(w, found[i], Means(w, i))

\* A generated call is written only where its name means the profile's library
\* or nothing at all, whatever the unseen imports hold; an unseen base gets the
\* benefit of the doubt (spec 1.3).
CallsTheProfile ==
    (pass = "done" /\ ~refused) =>
        \A w \in Worlds : (Accepted(w) /\ w.X = {}) =>
            \A i \in 1..(Len(unit.fn.body) + 1) :
                LET ds == IF i > Len(unit.fn.body) THEN Means(w, Len(unit.fn.body)) ELSE Means(w, i)
                IN \A d \in ds : d.kind = "library"

Before(s, a, b) == \E i, j \in DOMAIN s : i < j /\ s[i] = a /\ s[j] = b
Respects(s, c) ==
    /\ \A i, j \in DOMAIN Bases(c) : i < j => Before(s, Bases(c)[j], Bases(c)[i])
    /\ \A i \in DOMAIN Bases(c) : Before(s, c, Bases(c)[i])
Orders(cs) == {s \in [1..Cardinality(cs) -> cs] : \A i, j \in DOMAIN s : s[i] = s[j] => i = j}

\* The linearization of a contract whose bases are all in the unit has each of
\* them once, keeps the order of every base list and of the linearization of
\* every base, and is missing only if no order does (inherit.rs).
LinearizationExact ==
    pass = "done" =>
        \A c \in Contracts :
            LET all   == Ancestors({c})
                order == lin[c].order
            IN IF lin[c].complete
               THEN /\ ToSet(order) = all /\ Len(order) = Cardinality(all) /\ order[1] = c
                    /\ \A a \in all : Respects(order, a)
                    /\ \A a \in all : lin[a].complete
                          /\ \A i, j \in DOMAIN lin[a].order :
                                i < j => Before(order, lin[a].order[i], lin[a].order[j])
               ELSE \/ \E a \in all : Opaque(a)
                    \/ \E a \in all \ {c} : ~lin[a].complete
                    \/ ~\E s \in Orders(all) :
                          /\ Respects(s, c)
                          /\ \A a \in all \ {c} : \A i, j \in DOMAIN lin[a].order :
                                i < j => Before(s, lin[a].order[i], lin[a].order[j])

\* When the whole hierarchy is in the unit, the overloads of a name are all of
\* them (unit.rs: "Solidity unions overloads across the whole linearization").
OverloadsWhole ==
    pass = "done" =>
        \A w \in Worlds : Accepted(w) =>
            \A i \in DOMAIN found : Overloads(found[i]) => found[i].of = Means(w, i)
=============================================================================
