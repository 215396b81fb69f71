------------------------------ MODULE MCLibrary -----------------------------
(* Two parts of the library for TLC, which share nothing and are not        *)
(* interleaved: Printf, with the conversions the format may contain, and    *)
(* Sha2Context.                                                             *)
EXTENDS Printf, Sha2Context

Conv(flags, width, prec, has_prec, len, conv, arg) ==
  [flags |-> flags, width |-> width, prec |-> prec, has_prec |-> has_prec,
   len |-> len, conv |-> conv, arg |-> arg]

(* Integers.  '-' with a precision, '#' and a negative precision are not    *)
(* compared with C: the code does not follow it there.                      *)
SignedInts ==
  {Conv(f, w, 0, FALSE, l, "d", a) :
     f \in SUBSET {"0", "+", " ", "-"}, w \in -4..5, l \in {"", "h", "l"},
     a \in {0, 1, 7, 8, 9, 15, 16, 31}}
PreciseInts ==
  {Conv(f, w, p, TRUE, "", v, a) :
     f \in SUBSET {"0", "+"}, w \in 0..5, p \in 0..4, v \in {"d", "u", "x"},
     a \in {0, 3, 11, 15}}
UnsignedInts ==
  {Conv(f, w, 0, FALSE, l, v, a) :
     f \in SUBSET {"0", "-", "+"}, w \in {-3, 0, 2, 5},
     l \in {"", "hh", "h", "l"}, v \in {"u", "x", "X", "o", "b"}, a \in {0, 1, 7, 8, 15, 16, 31}}
IntConversions ==
  SignedInts \cup PreciseInts \cup UnsignedInts

(* One of each kind, to be combined.  The floats stay away from halves that *)
(* carry into the whole part.                                               *)
Mixed ==
  {Conv({"-"}, 5, 0, FALSE, "", "d", 13), Conv({"0"}, 4, 0, FALSE, "", "d", 9),
   Conv({}, 0, 0, FALSE, "", "s", <<"a", "b", "c">>),
   Conv({"-"}, 4, 2, TRUE, "", "s", <<"a", "b", "c">>),
   Conv({}, -3, 5, TRUE, "", "s", <<"a">>),
   Conv({}, 3, 0, FALSE, "", "c", <<"NUL">>), Conv({}, 0, 0, FALSE, "l", "p", 17),
   Conv({}, 0, 0, FALSE, "", "%", 0), Conv({}, 0, 0, FALSE, "", "f", NaN),
   Conv({}, 0, 1, TRUE, "", "f", 100), Conv({"0", "+"}, 7, 2, TRUE, "", "f", -63)}

(* a half that would have to carry into the whole part; the code does not   *)
(* carry it, see the README                                                 *)
CarryingHalf(a, p) ==
  LET tmp == Rounded((a % OneWhole) * 10 ^ p)
  IN 2 * (tmp % OneWhole) = OneWhole /\ tmp \div OneWhole = 10 ^ p - 1

Floats ==
  {c \in {Conv(f, w, p, TRUE, "", "f", a) :
            f \in {{}, {"0", "+"}, {"-"}}, w \in {0, 5}, p \in 0..3,
            a \in (-130)..130} :
     c.prec > 0 => ~CarryingHalf(Magnitude(c.arg), c.prec)}

Singles == IntConversions \cup Floats

------------------------------------------------------------------------------
(* one initial state of each part stands by while the other runs            *)
ContextIdle == impl = "sha256" /\ data = Unset /\ result = << >>
PrintfIdle  == maxlen = 0 /\ items = 0 /\ ~done

MCInit == Init /\ PrintfInit /\ (ContextIdle \/ PrintfIdle)

OnContext == PrintfIdle /\ Next /\ UNCHANGED printfVars
OnPrintf  == ContextIdle /\ PrintfNext /\ UNCHANGED vars

MCNext == OnContext \/ OnPrintf
MCSpec == MCInit /\ [][MCNext]_<<vars, printfVars>>
=============================================================================
