------------------------------ MODULE FeatureSet ------------------------------
(***************************************************************************)
(* The features a client enabled, the set made from them, the pass that     *)
(* fills the set in from modules, and the iterator over its features and    *)
(* sub-features, while the client goes on enabling and disabling.           *)
(*                                                                         *)
(* Names are numbers, in the order std::map keeps them. 0 stands for the    *)
(* empty name of the sub-feature a simple feature does not have.            *)
(***************************************************************************)
EXTENDS Integers, FiniteSets, FiniteSetsExt, Sequences, SequencesExt

CONSTANTS
  Names,       \* names clients may ask for
  SubNames,    \* names of sub-features
  Registered,  \* the registered features, by name: sub-features, kind, type,
               \* and whether processing them marks them as processed
  Modules,     \* what the pass runs on
  Width        \* bits of an index into the set

ASSUME NamesAssumption ==
  /\ Names \subseteq Nat \ {0} /\ IsFiniteSet(Names) /\ Names # {}
  /\ SubNames \subseteq Nat \ {0} /\ IsFiniteSet(SubNames)
  /\ DOMAIN Registered \subseteq Names
  /\ \A n \in DOMAIN Registered : Registered[n].subs \subseteq SubNames

ASSUME WidthAssumption == Width \in Nat /\ 2 ^ Width \in Nat \ {0}

(* What stands for a null feature is not a set of modules.                  *)
ASSUME ModulesAssumption == "null" \notin Modules

VARIABLES
  Enabled,   \* EnabledFeatures: names to sub-features, none standing for all
  Features,  \* the Set's features: the modules whose values each serves
  it,        \* the iterator of the loop in progress
  only,      \* the feature the loop was asked for, 0 for all of them
  seen,      \* history: the pairs the loop visited
  always,    \* history: pairs of the Set enabled ever since the loop began
  crashed    \* a null feature was dereferenced

vars == <<Enabled, Features, it, only, seen, always, crashed>>

Unprocessed == {}
Null == {"null"}
None == [n \in {} |-> Null]

EndName == Max(Names) + 1
EndSub == Max(SubNames \cup {0}) + 1
Crash == [name |-> 0, sub |-> 0]
End == [name |-> EndName, sub |-> 0]
Idle == [name |-> -1, sub |-> 0]

-----------------------------------------------------------------------------

(* What is not registered has no sub-features to ask for.                    *)
Subs(n) == IF n \in DOMAIN Registered THEN Registered[n].subs ELSE {}
isComposite(n) == Subs(n) # {}

(* A pair is enabled when its feature is, with all its sub-features or with *)
(* this one; the pair of a simple feature only needs the feature.           *)
isEnabled(n, s) ==
  /\ n \in DOMAIN Enabled
  /\ s = 0 \/ Enabled[n] = {} \/ s \in Enabled[n]

(* FeatureRegistry::get, which answers nullptr for what is not registered.  *)
Clone(n) == IF n \in DOMAIN Registered THEN Unprocessed ELSE Null

-----------------------------------------------------------------------------
(***************************************************************************)
(* The iterator. Entering a feature asks it whether it is composite, which  *)
(* is where a feature that was not registered is dereferenced.              *)
(***************************************************************************)
Enter(n) ==
  IF n = EndName THEN End
  ELSE IF Features[n] = Null THEN Crash
  ELSE [name |-> n, sub |-> IF isComposite(n) THEN Min(Subs(n)) ELSE 0]

incMapIterator(n) ==
  Enter(Min({m \in DOMAIN Features : m > n} \cup {EndName}))

(* Mutant: the other sub-features are passed over.                         *)
NextFeature(i, f) == IF f # 0 THEN End ELSE incMapIterator(i.name)

(* One step, of a loop over all features or over feature f.                 *)
Inc(i, f) ==
  LET sub == Min({s \in Subs(i.name) : s > i.sub} \cup {EndSub})
  IN IF isComposite(i.name) /\ sub # EndSub THEN [i EXCEPT !.sub = sub]
     ELSE IF f # 0 THEN End
     ELSE incMapIterator(i.name)

Iterators == [name : 0..EndName, sub : 0..EndSub]

(* update() steps on until the pair is enabled or the loop is over.         *)
update(i, f) ==
  LET on[j \in Iterators] ==
        IF j \in {End, Crash} \/ isEnabled(j.name, j.sub)
        THEN j ELSE on[Inc(j, f)]
  IN on[i]

(* begin(), of the feature f or, when f is 0, of the first one.             *)
begin(f) ==
  update(Enter(IF f # 0 THEN f ELSE Min(DOMAIN Features \cup {EndName})), f)

(* What a loop from begin() to end() visits if nothing changes meanwhile.   *)
Loop ==
  LET from[i \in Iterators] ==
        IF i \in {End, Crash} THEN <<>>
        ELSE <<i>> \o from[update(Inc(i, 0), 0)]
  IN from[begin(0)]

OfType(i, t) == Registered[i.name].type = t
OfBoth(i, k, t) == OfType(i, t) /\ Registered[i.name].kind = k

(* Where the pairs are that count(type) and count(kind, type) count.        *)
Typed(t) == {p \in DOMAIN Loop : OfType(Loop[p], t)}
KindAndTyped(k, t) == {p \in DOMAIN Loop : OfBoth(Loop[p], k, t)}

Index == 0..2 ^ Width - 1
Failed == Idle  \* the assertion at the end of get()

(* get(N, ...): the first pair that is wanted when the index, which counts  *)
(* down at every pair that is counted, is at zero.                          *)
Search(N, counted, wanted) ==
  LET from[p \in 1..Len(Loop) + 1] ==
        [n \in Index |->
           IF p > Len(Loop) THEN Failed
           ELSE IF n = 0 /\ p \in wanted THEN Loop[p]
           ELSE from[p + 1][IF p \in counted THEN (n - 1) % 2 ^ Width ELSE n]]
  IN from[1][N]

(* get(N, type) counts every pair down; get(N, kind, type) those that match. *)
getOfType(N, t) == Search(N, DOMAIN Loop, Typed(t))

(* Mutant: get(N, kind, type) as get(N, type).                              *)
EveryPair(N, k, t) == Search(N, DOMAIN Loop, KindAndTyped(k, t))

getOfKindAndType(N, k, t) == Search(N, KindAndTyped(k, t), KindAndTyped(k, t))

-----------------------------------------------------------------------------
(***************************************************************************)
(* What the client does.                                                   *)
(***************************************************************************)
Init ==
  /\ Enabled = [n \in {} |-> {}]
  /\ Features = None
  /\ it = Idle
  /\ only = 0
  /\ seen = <<>>
  /\ always = {}
  /\ crashed = FALSE

(* A Set is made once and shared by its pass and its loops.                 *)
InSet == {i \in [name : DOMAIN Features, sub : SubNames \cup {0}] :
            /\ i.name \in DOMAIN Registered
            /\ i.sub \in IF isComposite(i.name) THEN Subs(i.name) ELSE {0}}

Change(e) ==
  /\ ~crashed
  /\ Enabled' = e
  /\ always' = {i \in always : isEnabled(i.name, i.sub)'}
  /\ UNCHANGED <<Features, it, only, seen, crashed>>

enable(n, S) ==
  Change([m \in DOMAIN Enabled \cup {n} |->
            IF m = n THEN S ELSE Enabled[m]])

disableAll == Change([n \in {} |-> {}])

(* FeatureSet::get, of what is enabled at this moment, by the client or by  *)
(* the pass. A Set of nothing serves nothing: another may take its place.   *)
get ==
  /\ ~crashed
  /\ Features = None
  /\ Features' = [n \in DOMAIN Enabled |-> Clone(n)]
  /\ UNCHANGED <<Enabled, it, only, seen, always, crashed>>

(* Setting Processed is up to processModule of each feature. All but one do; *)
(* geos-bbfreq neither sets nor asks for it.                                *)
Marks(n) == n \in DOMAIN Registered /\ Registered[n].marks
isProcessed(n) == Marks(n) /\ Features[n] # Unprocessed

(* Mutant: without isProcessed.                                             *)
Refill(m) ==
  [n \in DOMAIN Features |-> IF Features[n] = Null THEN Null ELSE Features[n] \cup {m}]

(* The pass fills in what is not processed yet, name by name. What is filled *)
(* in again keeps what it has: values are kept by block, and the blocks of   *)
(* another module are others.                                               *)
processed(m) ==
  [n \in DOMAIN Features |->
     IF /\ ~isProcessed(n)
        /\ Features[n] # Null
        /\ \A l \in DOMAIN Features : l < n => Features[l] # Null
     THEN Features[n] \cup {m} ELSE Features[n]]

runOnModule(m) ==
  /\ ~crashed
  /\ Features' = processed(m)
  /\ crashed' = \E n \in DOMAIN Features : Features[n] = Null
  /\ UNCHANGED <<Enabled, it, only, seen, always>>

(***************************************************************************)
(* Loops, over every feature of the Set or over one of them.                *)
(***************************************************************************)
MoveTo(i) ==
  /\ it' = IF i = Crash THEN Idle ELSE i
  /\ crashed' = (i = Crash)
  /\ UNCHANGED <<Enabled, Features>>

Begin(f) ==
  /\ ~crashed
  /\ it \in {Idle, End}
  /\ f \in DOMAIN Features \cup {0}
  /\ only' = f
  /\ seen' = IF begin(f) \in {End, Crash} THEN <<>> ELSE <<begin(f)>>
  /\ always' = {i \in InSet : isEnabled(i.name, i.sub) /\ f \in {0, i.name}}
  /\ MoveTo(begin(f))

Increment ==
  /\ ~crashed
  /\ it \notin {Idle, End}
  /\ LET i == update(Inc(it, only), only)
     IN /\ MoveTo(i)
        /\ seen' = IF i \in {End, Crash} THEN seen ELSE Append(seen, i)
  /\ UNCHANGED <<only, always>>

(* Sub-features asked of a feature that has none change nothing.            *)
Lists(n) ==
  IF n \in DOMAIN Registered /\ isComposite(n) THEN SUBSET SubNames ELSE {{}}

Next ==
  \/ \E n \in Names : \E S \in Lists(n) : enable(n, S)
  \/ disableAll
  \/ get
  \/ \E m \in Modules : runOnModule(m)
  \/ \E f \in Names \cup {0} : Begin(f)
  \/ Increment

Spec == Init /\ [][Next]_vars

(***************************************************************************)
(* Properties.                                                             *)
(***************************************************************************)

Precedes(i, j) == i.name < j.name \/ (i.name = j.name /\ i.sub < j.sub)

(* A loop goes through the pairs in one order, each at most once, and misses *)
(* none that was enabled from its begin() to its end(), whatever else the    *)
(* client enabled or disabled between two steps of it.                      *)
LoopFindsAll ==
  /\ \A j, k \in DOMAIN seen : j < k => Precedes(seen[j], seen[k])
  /\ it = End => always \subseteq Range(seen)

Filled(n) == Features[n] \notin {Unprocessed, Null}

(* However many modules the pass is given, the features that mark themselves *)
(* processed serve one of them, the same for all, the first the pass ran on; *)
(* a feature that does not, as geos-bbfreq, serves that one too, but not     *)
(* alone: the values of every later module are added to it.                 *)
OneModule ==
  [][\A n \in DOMAIN Features : Marks(n) /\ Filled(n) =>
       \E m \in Modules :
         /\ Features[n] = {m}
         /\ Features'[n] = {m}
         /\ \A k \in DOMAIN Features : Filled(k)' =>
              IF Marks(k) THEN Features'[k] = {m} ELSE m \in Features'[k]]_vars

Kinds == {Registered[n].kind : n \in DOMAIN Registered}
Types == {Registered[n].type : n \in DOMAIN Registered}
Usable == \A n \in DOMAIN Features : Features[n] # Null

(* The pairs in front of the one at p of those that are counted: its number. *)
Number(p, counted) == Cardinality({q \in counted : q < p})

(* With every index below count(kind, type), get(N, kind, type) finds the   *)
(* Nth enabled feature of that kind and type.                               *)
NthOfKindAndType ==
  Usable => \A k \in Kinds, t \in Types : \A p \in KindAndTyped(k, t) :
    LET N == Number(p, KindAndTyped(k, t))
    IN  N \in Index => getOfKindAndType(N, k, t) = Loop[p]

(* FeatureSet.h:130: "Gets an iterator to the Nth feature with type FType." *)
NthOfType ==
  Usable => \A t \in Types : \A p \in Typed(t) :
    LET N == Number(p, Typed(t))
    IN  N \in Index => getOfType(N, t) = Loop[p]

=============================================================================
