------------------------------ MODULE MCFactory ------------------------------
(* Model checking of Factory: some classes of Ruby, an object with a singleton *)
(* class among the objects packed, one unpacker's entry for each class.        *)
EXTENDS Factory, TLC

CONSTANTS Module, Person, Singleton, f1, f2, p1, p2, n1

\* A module, a class that includes it, a singleton class of an object of it.
Classes     == {Module, Person, Singleton}
FlagClasses == {Symbol, Integer}
AncestorsOf == [c \in Class |-> CASE c = Person -> {Person, Module}
                                  [] c = Singleton -> Classes
                                  [] OTHER -> {c}]
Objects == {<<Person, Person>>, <<Singleton, Person>>}
NoObject == {}
\* What factories register; packers may register any class.
NotSingleton == {Module, Person}
Modules == [c \in UkEntry |-> c]

TwoFactories == {f1, f2}
OneUnpacker  == {n1}
OnePacker    == {p1}
TwoPackers   == {p1, p2}
All          == Factories \cup Packers \cup Unpackers

Symmetry == Permutations(Factories) \cup Permutations(Registry) \cup Permutations(HashId)
=============================================================================
