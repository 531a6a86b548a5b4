------------------------------- MODULE Bytes -------------------------------
(***************************************************************************)
(* Byte strings and the conversions the command executor applies to them:  *)
(* decimal integers (str::parse::<i64>, i64::to_string), decimal fractions *)
(* (str::parse::<f64>, format_float), lossy UTF-8 decoding, the byte order *)
(* of sorted replies, index normalisation and glob matching.               *)
(*                                                                         *)
(* A byte string is a sequence of naturals below 256.  Integers are i64    *)
(* with the range scaled to -I64Max-1 .. I64Max.  A fraction is an integer *)
(* number of tenths.                                                       *)
(***************************************************************************)
EXTENDS Integers, Sequences, SequencesExt

CONSTANT I64Max

ASSUME I64MaxAssumption == I64Max \in Nat

InI64(n) == -I64Max - 1 <= n /\ n <= I64Max

IsDigit(b) == b \in 48..57

(* The unsigned decimal value of a string of digits, and its inverse. *)
DigitsValue(s) == FoldLeft(LAMBDA acc, b : 10 * acc + (b - 48), 0, s)

Digits(n) ==
  LET d[k \in 0..n] == IF k < 10 THEN <<48 + k>>
                       ELSE Append(d[k \div 10], 48 + (k % 10))
  IN  d[n]

FormatInt(n) == IF n < 0 THEN <<45>> \o Digits(-n) ELSE Digits(n)

(* A leading "+" or "-" is accepted, the empty string and a bare sign are  *)
(* not, and a value outside the range is an error like any other.          *)
Signed(s)   == s # <<>> /\ s[1] \in {43, 45}
Unsigned(s) == IF Signed(s) THEN Tail(s) ELSE s
Negate(s, n) == IF s[1] = 45 THEN -n ELSE n

AllDigits(s) == s # <<>> /\ \A i \in DOMAIN s : IsDigit(s[i])

IsI64(s)  == AllDigits(Unsigned(s)) /\ InI64(Negate(s, DigitsValue(Unsigned(s))))
I64Of(s)  == Negate(s, DigitsValue(Unsigned(s)))

(* Fractions: [sign] digits [ "." digits ] with at most one fractional     *)
(* digit, and "inf"; the exponent forms are outside the modelled inputs.   *)
Infinity == <<105, 110, 102>>

PointAt(s) == IF \E i \in DOMAIN s : s[i] = 46
              THEN CHOOSE i \in DOMAIN s : s[i] = 46 /\ \A j \in 1..(i - 1) : s[j] # 46
              ELSE Len(s) + 1
Whole(s)    == SubSeq(s, 1, PointAt(s) - 1)
Fraction(s) == SubSeq(s, PointAt(s) + 1, Len(s))

IsFinite(s) ==
  LET u == Unsigned(s)
  IN  /\ Whole(u) # <<>> \/ Fraction(u) # <<>>
      /\ \A i \in DOMAIN u : IsDigit(u[i]) \/ i = PointAt(u)
      /\ Len(Fraction(u)) <= 1
TenthsOf(s) ==
  LET u == Unsigned(s)
  IN  Negate(s, 10 * DigitsValue(Whole(u))
                + (IF Fraction(u) = <<>> THEN 0 ELSE Fraction(u)[1] - 48))

(* "%.17" of the value with its trailing zeros and a trailing point removed *)
FormatFloat(t) ==
  LET m == IF t < 0 THEN -t ELSE t
      u == Digits(m \div 10) \o (IF m % 10 = 0 THEN <<>> ELSE <<46, 48 + (m % 10)>>)
  IN  IF t < 0 THEN <<45>> \o u ELSE u

(* String::from_utf8_lossy: every byte that is not part of a UTF-8         *)
(* sequence becomes U+FFFD.  The modelled strings hold no multi-byte       *)
(* sequence, so every byte above 127 is replaced.                          *)
Utf8Lossy(s) ==
  FoldLeft(LAMBDA acc, b : acc \o (IF b < 128 THEN <<b>> ELSE <<239, 191, 189>>),
           <<>>, s)

(* The byte order of strings (slice::cmp). *)
LexLess(a, b) ==
  \/ Len(a) < Len(b) /\ IsPrefix(a, b)
  \/ \E i \in 1..Len(a) :
       /\ i <= Len(b) /\ a[i] < b[i]
       /\ SubSeq(a, 1, i - 1) = SubSeq(b, 1, i - 1)

SortStrings(S) == SetToSortSeq(S, LexLess)

(* Ranges of a sequence by signed, zero-based indices: RedisList::range,   *)
(* RedisList::trim and RedisSortedSet::range.                              *)
MaxOf(a, b) == IF a < b THEN b ELSE a
MinOf(a, b) == IF a < b THEN a ELSE b

NormStart(start, len) == IF start < 0 THEN MaxOf(len + start, 0) ELSE MinOf(start, len)
NormStop(stop, len)   == IF stop < 0 THEN MaxOf(len + stop, -1) ELSE MinOf(stop, len - 1)

RangeOf(s, start, stop) ==
  LET a == NormStart(start, Len(s))
      z == NormStop(stop, Len(s))
  IN  IF a > z \/ a >= Len(s) THEN <<>> ELSE SubSeq(s, a + 1, z + 1)

(* The bytes a character class names: single bytes and ranges a-z.  A      *)
(* class that expands to nothing (an inverted range) stands for its own    *)
(* characters.                                                             *)
ClassBytes(class) ==
  LET from[i \in 1..(Len(class) + 1)] ==
        IF i > Len(class) THEN {}
        ELSE IF i + 2 <= Len(class) /\ class[i + 1] = 45
             THEN class[i]..class[i + 2] \cup from[i + 3]
             ELSE {class[i]} \cup from[i + 1]
  IN  IF from[1] = {} THEN ToSet(class) ELSE from[1]

InClass(b, inside) ==
  IF inside # <<>> /\ inside[1] = 94 THEN b \notin ClassBytes(Tail(inside))
  ELSE b \in ClassBytes(inside)

(* CommandExecutor::glob_match: "*", "?", "[...]" and "[^...]"; a bracket  *)
(* that is never closed matches nothing.                                   *)
GlobMatch(key, pattern) ==
  LET n == Len(key) + 1
      Close(p) == {q \in (p + 1)..Len(pattern) : pattern[q] = 93}
      match[k \in 1..n, p \in 1..(Len(pattern) + 1)] ==
        IF p > Len(pattern) THEN k = n
        ELSE IF pattern[p] = 42 THEN \E i \in k..n : match[i, p + 1]
        ELSE IF pattern[p] = 63 THEN k < n /\ match[k + 1, p + 1]
        ELSE IF pattern[p] = 91 THEN
          /\ k < n
          /\ \E q \in Close(p) :
               /\ \A r \in Close(p) : q <= r
               /\ InClass(key[k], SubSeq(pattern, p + 1, q - 1)) /\ match[k + 1, q + 1]
        ELSE k < n /\ key[k] = pattern[p] /\ match[k + 1, p + 1]
  IN  match[1, 1]
=============================================================================
