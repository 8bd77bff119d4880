------------------------------- MODULE Format -------------------------------
(***************************************************************************)
(* kernel/log.c: the log level, and vsnprintf, one iteration of its loop   *)
(* per step, with itoa (kernel/string.c).  A format is a sequence of       *)
(* characters.  An argument is a record, of which each conversion reads    *)
(* the field of the type it takes from the list.                           *)
(***************************************************************************)
EXTENDS Integers, Sequences, FiniteSets

Ext == INSTANCE SequencesExt

CONSTANTS
    LogSize,    \* bytes of the line's buffer (256)
    WordSize,   \* 2^w, for the w bits of an int (32)
    Formats,    \* the formats callers pass
    Arguments,  \* the argument lists callers pass
    Levels      \* the log levels

(* A character; "end" stands for the terminating zero, which no format holds. *)
Character == STRING \ {"end"}

(* What an argument is to each of the conversions. *)
Argument == [num : 0 .. WordSize - 1, null : BOOLEAN, str : Seq(STRING), chr : STRING]

(* The specifiers that take an argument, and the places where f asks for one. *)
Taking == {"d", "u", "x", "X", "s", "c"}
Conversions(f) == {q \in 1 .. Len(f) - 1 : f[q] = "%" /\ f[q + 1] \in Taking}

(* Callers pass an argument for every conversion. *)
ASSUME FormatAssumption ==
    /\ LogSize \in Nat \ {0} /\ WordSize \in Nat /\ WordSize % 2 = 0
    /\ Levels \subseteq Nat /\ 0 \in Levels
    /\ Formats \subseteq Seq(Character) /\ Arguments \subseteq Seq(Argument)
    /\ \A f \in Formats, list \in Arguments : Cardinality(Conversions(f)) <= Len(list)

VARIABLES
    current_log_level,
    busy,         \* a line is being formatted
    format, args, \* what log_printf was called with
    p, a,         \* the next character of the format, the next argument
    buf           \* the characters written: i of them

formatVars == <<current_log_level, busy, format, args, p, a, buf>>

(* log_init leaves the level at LOG_DEBUG. *)
FormatInit ==
    /\ current_log_level = 0
    /\ busy = FALSE
    /\ format = <<>> /\ args = <<>> /\ p = 1 /\ a = 1 /\ buf = <<>>

Digit == <<"0", "1", "2", "3", "4", "5", "6", "7", "8", "9", "a", "b", "c", "d", "e", "f">>
UpperDigit == <<"0", "1", "2", "3", "4", "5", "6", "7", "8", "9", "A", "B", "C", "D", "E", "F">>

(* The word as the int that itoa takes, also where the conversion is unsigned. *)
AsInt(word) == IF word >= WordSize \div 2 THEN word - WordSize ELSE word

(* C's / truncates towards zero, and % takes the sign of the dividend. *)
Quotient(v, base) == IF v < 0 THEN -((-v) \div base) ELSE v \div base
Remainder(v, base) == v - Quotient(v, base) * base

(* The digits as the loop stores them, lowest first. *)
LowFirst(value, base) ==
    LET rem(v) == LET r == Remainder(v, base) IN IF r < 0 THEN -r ELSE r
        low[v \in -WordSize .. WordSize] ==
            IF Quotient(v, base) = 0 THEN <<Digit[rem(v) + 1]>>
            ELSE <<Digit[rem(v) + 1]>> \o low[Quotient(v, base)]
    IN  low[value]

Sign(value, base) == IF value < 0 /\ base = 10 THEN <<"-">> ELSE <<>>

(* Only base 10 has a sign, which the reversal leaves in its place. *)
itoa(value, base) == Sign(value, base) \o Ext!Reverse(LowFirst(value, base))

Upper(str) ==
    [i \in DOMAIN str |-> UpperDigit[CHOOSE d \in DOMAIN Digit : Digit[d] = str[i]]]

(* log_printf and its wrappers: below the current level nothing happens. *)
log_printf(level, f, list) ==
    /\ ~busy
    /\ level >= current_log_level
    /\ busy' = TRUE
    /\ format' = f /\ args' = list /\ p' = 1 /\ a' = 1 /\ buf' = <<>>
    /\ UNCHANGED current_log_level

log_set_level(level) ==
    /\ ~busy
    /\ current_log_level' = level
    /\ UNCHANGED <<busy, format, args, p, a, buf>>

Room == LogSize - 1 - Len(buf)

Fitting_one_more(str) == SubSeq(str, 1, IF Len(str) <= Room THEN Len(str) ELSE Room + 1)

(* As much of str as its loop copies. *)
Fitting(str) == SubSeq(str, 1, IF Len(str) <= Room THEN Len(str) ELSE Room)

(* Every iteration needs a character of the format and one byte of room. *)
Continues == busy /\ p <= Len(format) /\ Room > 0

(* Writes str, skips the characters of the format that asked for it and takes the
   arguments. *)
Emit(str, skipped, taken) ==
    /\ buf' = buf \o str
    /\ p' = p + skipped
    /\ a' = a + taken
    /\ UNCHANGED <<current_log_level, busy, format, args>>

copy_character == Continues /\ format[p] # "%" /\ Emit(<<format[p]>>, 1, 0)

(* The character after '%'; past the end of the format it is the terminating zero. *)
Specifier == IF p < Len(format) THEN format[p + 1] ELSE "end"

convert_number ==
    /\ Continues /\ format[p] = "%"
    /\ \/ /\ Specifier \in {"d", "u"}
          /\ Emit(Fitting(itoa(AsInt(args[a].num), 10)), 2, 1)
       \/ /\ Specifier = "x"
          /\ Emit(Fitting(itoa(AsInt(args[a].num), 16)), 2, 1)
       \/ /\ Specifier = "X"
          /\ Emit(Fitting(Upper(itoa(AsInt(args[a].num), 16))), 2, 1)

(* A null pointer reads "(null)". *)
convert_string ==
    /\ Continues /\ format[p] = "%"
    /\ Specifier = "s"
    /\ LET str == IF args[a].null THEN <<"(", "n", "u", "l", "l", ")">> ELSE args[a].str
       IN  Emit(Fitting(str), 2, 1)

convert_character ==
    /\ Continues /\ format[p] = "%"
    /\ \/ Specifier = "c" /\ Emit(<<args[a].chr>>, 2, 1)
       \/ Specifier = "%" /\ Emit(<<"%">>, 2, 0)

(* A '%' that ends the format is dropped. *)
lone_percent == Continues /\ format[p] = "%" /\ Specifier = "end" /\ Emit(<<>>, 1, 0)

(* Any other specifier is copied, as far as it fits, and takes no argument. *)
unknown_specifier ==
    /\ Continues /\ format[p] = "%"
    /\ Specifier \notin {"d", "u", "x", "X", "s", "c", "%", "end"}
    /\ Emit(Fitting(<<"%", Specifier>>), 2, 0)

(* The terminating zero is stored and the line printed. *)
log_vprintf_done ==
    /\ busy /\ ~Continues
    /\ busy' = FALSE
    /\ UNCHANGED <<current_log_level, format, args, p, a, buf>>

FormatNext ==
    \/ \E level \in Levels :
          \/ log_set_level(level)
          \/ \E f \in Formats, list \in Arguments : log_printf(level, f, list)
    \/ copy_character \/ convert_number \/ convert_string \/ convert_character
    \/ lone_percent \/ unknown_specifier
    \/ log_vprintf_done

FormatSpec == FormatInit /\ [][FormatNext]_formatVars

-----------------------------------------------------------------------------
FormatTypeOK ==
    /\ busy \in BOOLEAN /\ current_log_level \in Levels
    /\ Len(buf) <= LogSize - 1

(* The values of the places of a numeral, from the lowest on. *)
Power(base) ==
    LET power[k \in 0 .. WordSize] == IF k = 0 THEN 1 ELSE base * power[k - 1]
    IN  power

(* The numeral of n: as many digits as it takes, by their places. *)
Numeral(n, base, digit) ==
    LET places == CHOOSE k \in 1 .. WordSize :
                     n < Power(base)[k] /\ (k = 1 \/ n >= Power(base)[k - 1])
    IN  [i \in 1 .. places |-> digit[((n \div Power(base)[places - i]) % base) + 1]]

Signed(n) == IF n < 0 THEN <<"-">> \o Numeral(-n, 10, Digit) ELSE Numeral(n, 10, Digit)

(* What a specifier stands for. *)
Text(specifier, arg) ==
    CASE specifier = "d" -> Signed(AsInt(arg.num))
      [] specifier = "u" -> Numeral(arg.num, 10, Digit)
      [] specifier = "x" -> Numeral(arg.num, 16, Digit)
      [] specifier = "X" -> Numeral(arg.num, 16, UpperDigit)
      [] specifier = "s" -> IF arg.null THEN <<"(", "n", "u", "l", "l", ")">> ELSE arg.str
      [] specifier = "c" -> <<arg.chr>>
      [] specifier = "%" -> <<"%">>
      [] OTHER           -> <<"%", specifier>>

(* What the format means from character q on, when k is the next argument. *)
Rest(f, list) ==
    LET rest[q \in 1 .. Len(f) + 1] ==
          [k \in Nat |->
             IF q > Len(f) THEN <<>>
             ELSE IF f[q] # "%" THEN <<f[q]>> \o rest[q + 1][k]
             ELSE IF q = Len(f) THEN <<>>
             ELSE Text(f[q + 1], list[k])
                     \o rest[q + 2][IF f[q + 1] \in Taking THEN k + 1 ELSE k]]
    IN  rest

(* What the whole line would be in a buffer without end; conversions take the arguments
   in their order. *)
Meaning(f, list) == Rest(f, list)[1][1]

(* An unsigned conversion is given a word that is not negative as an int. *)
Unambiguous ==
    \A n \in 2 .. Len(format) :
        format[n - 1] = "%" /\ format[n] \in {"u", "x", "X"}
           => \A k \in DOMAIN args : args[k].num < WordSize \div 2

(* The line in the buffer is the meaning of the format, cut at the size of the buffer
   and nowhere else: no conversion, whatever is the room left when it starts, loses,
   repeats or overruns a character, and itoa's digits denote the number. *)
LineIsCutMeaning ==
    Unambiguous =>
        LET whole == Meaning(format, args)
        IN  /\ Ext!IsPrefix(buf, whole)
            /\ ~busy => Len(buf) = IF Len(whole) <= LogSize - 1 THEN Len(whole) ELSE LogSize - 1
=============================================================================
