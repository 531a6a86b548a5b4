------------------------------ MODULE Grammar ------------------------------
(***************************************************************************)
(* The argument forms the three command parsers are written from: the      *)
(* count of arguments a command takes, the conversion each argument goes   *)
(* through, repeated arguments, pairs and named options.                   *)
(*                                                                         *)
(* A request line is a sequence of words.  A word is a bulk string, or an  *)
(* integer element of the RESP array when it is in Elements.  What a word  *)
(* parses to is given by Numeral (the integers) and Fractions (words that  *)
(* are floats and not integers); Upper maps a word that has lower-case     *)
(* letters to its upper-case form.                                         *)
(*                                                                         *)
(* A parse is <<"ok", variant, fixed, repeated, options>>, <<"err">> for a *)
(* returned error, or <<"panic">> when the code indexes past the line.     *)
(***************************************************************************)
EXTENDS Integers, Sequences, FiniteSetsExt, TLC

CONSTANTS Numeral, Fractions, Elements, Upper

Err   == <<"err">>
Panic == <<"panic">>

Ok(variant, fixed, repeated, options) == <<"ok", variant, fixed, repeated, options>>

Uppercase(w) == IF w \in DOMAIN Upper THEN Upper[w] ELSE w

IsInt(w)  == w \in DOMAIN Numeral
IsUint(w) == IsInt(w) /\ (w \in Elements \/ Numeral[w] >= 0)

(* extract_string and extract_sds take bulk strings only; the integer      *)
(* conversions also take an integer element, which `as u64` wraps.         *)
Accepts(kind, w) ==
  CASE kind = "str"    -> w \notin Elements
    [] kind = "int"    -> IsInt(w)
    [] kind = "u64"    -> IsUint(w)
    [] kind = "usize"  -> w \notin Elements /\ IsUint(w)
    [] kind = "float"  -> w \notin Elements /\ (IsInt(w) \/ w \in Fractions)
    [] kind = "finite" -> w \notin Elements /\ (IsInt(w) \/ (w \in Fractions /\ w # "inf"))
    [] kind = "db"     -> IsUint(w) /\ Numeral[w] <= 15
    [] kind = "offset" -> IsInt(w) /\ Numeral[w] >= 0
    [] kind = "bit"    -> IsInt(w) /\ Numeral[w] \in {0, 1}
    [] kind = "side"   -> Uppercase(w) \in {"LEFT", "RIGHT"}

AllAccepted(kinds, a) == \A i \in DOMAIN kinds : Accepts(kinds[i], a[i])

(* Exactly the given arguments. *)
Fixed(a, variant, kinds) ==
  IF Len(a) = Len(kinds) /\ AllAccepted(kinds, a) THEN Ok(variant, a, <<>>, {}) ELSE Err

(* The arguments are not looked at. *)
Bare(variant) == Ok(variant, <<>>, <<>>, {})

(* The given arguments, and one more of `kind` that may be missing; what   *)
(* follows it is an error when `strict` and ignored otherwise.             *)
Optional(a, variant, kinds, kind, strict) ==
  LET n == Len(kinds)
  IN  IF /\ Len(a) >= n /\ AllAccepted(kinds, a)
         /\ Len(a) > n => Accepts(kind, a[n + 1])
         /\ strict => Len(a) <= n + 1
      THEN Ok(variant, SubSeq(a, 1, n), IF Len(a) > n THEN <<a[n + 1]>> ELSE <<>>, {})
      ELSE Err

(* The given arguments followed by at least `least` more of one kind. *)
Many(a, variant, kinds, kind, least) ==
  LET n == Len(kinds)
  IN  IF /\ Len(a) >= n + least /\ AllAccepted(kinds, a)
         /\ \A i \in (n + 1)..Len(a) : Accepts(kind, a[i])
      THEN Ok(variant, SubSeq(a, 1, n), SubSeq(a, n + 1, Len(a)), {})
      ELSE Err

(* The given arguments followed by one or more pairs. *)
Pairs(a, variant, kinds, pair, options) ==
  LET n == Len(kinds)
  IN  IF /\ Len(a) >= n + 2 /\ (Len(a) - n) % 2 = 0 /\ AllAccepted(kinds, a)
         /\ \A i \in (n + 1)..Len(a) : Accepts(pair[1 + ((i - n - 1) % 2)], a[i])
      THEN Ok(variant, SubSeq(a, 1, n), SubSeq(a, n + 1, Len(a)), options)
      ELSE Err

(* The option loop: `table` gives the kinds of the values an option takes, *)
(* `short` the outcome when the line ends before them.  A repeated option  *)
(* overwrites the earlier one.                                             *)
RECURSIVE TakeOptions(_, _, _, _)
TakeOptions(w, table, short, got) ==
  IF w = <<>> THEN <<"ok", got>>
  ELSE LET o == Uppercase(Head(w))
       IN  IF o \notin DOMAIN table THEN Err
           ELSE LET n == Len(table[o])
                    v == SubSeq(w, 2, n + 1)
                IN  IF Len(w) < n + 1 THEN short
                    ELSE IF ~AllAccepted(table[o], v) THEN Err
                    ELSE TakeOptions(SubSeq(w, n + 2, Len(w)), table, short,
                                     {p \in got : p[1] # o} \union {<<o, v>>})

(* Given arguments and options, of which no set in `clash` may be present  *)
(* together.                                                               *)
WithOptions(a, variant, kinds, table, short, clash) ==
  LET n == Len(kinds)
      t == TakeOptions(SubSeq(a, n + 1, Len(a)), table, short, {})
  IN  IF Len(a) < n \/ ~AllAccepted(kinds, SubSeq(a, 1, n)) THEN Err
      ELSE IF t[1] # "ok" THEN t
      ELSE IF \E c \in clash : c \subseteq {p[1] : p \in t[2]} THEN Err
      ELSE Ok(variant, SubSeq(a, 1, n), <<>>, t[2])

(* The flags that may stand before ZADD's pairs. *)
RECURSIVE LeadingFlags(_, _)
LeadingFlags(w, flags) ==
  IF w # <<>> /\ Uppercase(Head(w)) \in flags
  THEN 1 + LeadingFlags(Tail(w), flags) ELSE 0

FlagPairs(a, variant, flags) ==
  LET n == IF a = <<>> THEN 0 ELSE LeadingFlags(Tail(a), flags)
  IN  IF Len(a) < 3 \/ ~Accepts("str", a[1]) THEN Err
      ELSE Pairs(<<a[1]>> \o SubSeq(a, n + 2, Len(a)), variant, <<"str">>,
                 <<"float", "str">>,
                 {<<Uppercase(a[i]), <<>>>> : i \in 2..(n + 1)})

(* EVAL and EVALSHA: a script, a count and that many keys, then arguments. *)
(* The count is cast to usize, so a negative one reaches past the slice.   *)
KeysThenArgs(a, variant) ==
  IF Len(a) < 2 \/ ~AllAccepted(<<"str", "int">>, a) THEN Err
  ELSE LET n == Numeral[a[2]]
       IN  IF n < 0 THEN Panic
           ELSE IF Len(a) < 2 + n \/ \E i \in 3..Len(a) : ~Accepts("str", a[i]) THEN Err
           ELSE Ok(variant, SubSeq(a, 1, 2 + n), SubSeq(a, 3 + n, Len(a)), {})

(* SORT: anything but STORE is skipped, and STORE at the end too. *)
RECURSIVE StoreOf(_)
StoreOf(w) ==
  IF w = <<>> THEN <<"ok", {}>>
  ELSE IF Uppercase(w[1]) # "STORE"
       THEN IF Accepts("str", w[1]) THEN StoreOf(Tail(w)) ELSE Err
  ELSE IF Len(w) = 1 THEN <<"ok", {}>>
  ELSE IF ~Accepts("str", w[2]) THEN Err
  ELSE LET later == StoreOf(SubSeq(w, 3, Len(w)))
       IN  IF later = <<"ok", {}>> THEN <<"ok", {<<"STORE", <<w[2]>>>>}>> ELSE later

SortForm(a) ==
  IF a = <<>> \/ ~Accepts("str", a[1]) THEN Err
  ELSE LET t == StoreOf(Tail(a))
       IN  IF t[1] = "ok" THEN Ok("Sort", <<a[1]>>, <<>>, t[2]) ELSE Err

(* ZRANGE and ZREVRANGE: a fourth argument other than WITHSCORES is taken  *)
(* and ignored.                                                            *)
RangeForm(a, variant) ==
  LET r == Optional(a, variant, <<"str", "int", "int">>, "str", TRUE)
  IN  IF r = Err THEN Err
      ELSE Ok(variant, r[3], <<>>,
              {<<"WITHSCORES", <<>>>> : i \in {j \in DOMAIN r[4] : Uppercase(r[4][j]) = "WITHSCORES"}})

(* SETEX and PSETEX are SET with the time moved into an option. *)
TimedSet(a, unit) ==
  IF Len(a) = 3 /\ AllAccepted(<<"str", "int", "str">>, a)
  THEN Ok("Set", <<a[1], a[3]>>, <<>>, {<<unit, <<a[2]>>>>}) ELSE Err

(* A command with subcommands: `forms` maps a subcommand to its outcome. *)
Subcommand(a, forms) ==
  IF a = <<>> \/ ~Accepts("str", a[1]) \/ Uppercase(a[1]) \notin DOMAIN forms THEN Err
  ELSE forms[Uppercase(a[1])]

Flag(names)  == [o \in names |-> <<>>]
Valued(names, kinds) == [o \in names |-> kinds]
=============================================================================
