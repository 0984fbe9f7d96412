------------------------------- MODULE NocCore -------------------------------
(***************************************************************************)
(* What the compiler and the machine of NOC share: the words that programs *)
(* compute with (W = 64 in the code) and the registry of functions         *)
(* (src/kernel/noc/vm.c).                                                  *)
(***************************************************************************)
EXTENDS Integers, SequencesExt

CONSTANTS W,           \* bits of a value
          MaxLocals,   \* NOC_MAX_LOCALS
          MaxFuncs,    \* NOC_MAX_FUNCS
          Lower,       \* lower-case form of each function name
          Addr,        \* the address of each string literal, a word
          Files        \* scripts on disk: from names to sequences of programs

Word == 0..(2^W - 1)
MinusOne == 2^W - 1

\* The powers of two are what they are: the provers do not know.
ASSUME WordAssumption ==
  /\ W \in Nat \ {0} /\ 2^W \in Nat /\ 2^W >= 2 /\ \A k \in 0..(W - 1) : 2^k \in Nat \ {0}
  /\ \A s \in DOMAIN Addr : Addr[s] \in Word

\* Two's complement, signed comparison and division.
Signed(v) == IF v >= 2^(W - 1) THEN v - 2^W ELSE v
Wrap(n) == n % 2^W
Abs(n) == IF n < 0 THEN -n ELSE n
Truth(b) == IF b THEN 1 ELSE 0

\* The one quotient that is not a word.
DivOverflows(a, b) == Signed(a) = -(2^(W - 1)) /\ Signed(b) = -1

------------------------------------------------------------------------------
(* The registry: a sequence of functions.                                  *)

\* Names are looked up ignoring case, the oldest entry first; 0 if unknown.
noc_lookup(F, name) ==
  SelectInSeq(F, LAMBDA f : Lower[f.name] = Lower[name])

\* A function replaces, and frees, the one with exactly its name; else it is
\* added if there is room.  The result is the new registry and success.
noc_register_user_fn(F, f) ==
  LET i == SelectInSeq(F, LAMBDA g : g.name = f.name) IN
  CASE i # 0              -> [funcs |-> [F EXCEPT ![i] = f], ok |-> TRUE]
    [] Len(F) >= MaxFuncs -> [funcs |-> F, ok |-> FALSE]
    [] OTHER              -> [funcs |-> Append(F, f), ok |-> TRUE]
==============================================================================
