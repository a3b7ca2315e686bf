----------------------------- MODULE Variables -----------------------------
(***************************************************************************)
(* The variables of the shell: two arrays, one of names and one of texts,   *)
(* and the commands that change them ($X=, $X+=, add, sub and unset of      *)
(* process_single_command, src/programs/shell/shell.c).                     *)
(*                                                                         *)
(* A text is a sequence of characters, because numbers are kept as text.    *)
(* Memory for names and texts is taken to be there.                        *)
(***************************************************************************)
EXTENDS Integers, Sequences, SequencesExt

CONSTANTS
  Names,
  DIGITS,           \* the digits, from zero: ten in the code
  INT_BITS,         \* the width of an int
  MAX_VARIABLES

ASSUME VariablesAssumption == MAX_VARIABLES \in Nat

VARIABLES variables, values    \* the first variable_count entries of each

shellvars == <<variables, values>>

-----------------------------------------------------------------------------
(* Numbers                                                                 *)

Base == Len(DIGITS)
Ints == (0 - 2^(INT_BITS - 1))..(2^(INT_BITS - 1) - 1)
INT_MIN == 0 - 2^(INT_BITS - 1)
Wrapped(n) == ((n - INT_MIN) % (2^INT_BITS)) + INT_MIN

Negative(text) == text # <<>> /\ text[1] = "-"
Unsigned(text) == IF Negative(text) THEN Tail(text) ELSE text

is_numeric(text) == Unsigned(text) # <<>> /\ \A c \in Range(Unsigned(text)) : Contains(DIGITS, c)

Value(c) == SelectInSeq(DIGITS, LAMBDA d : d = c) - 1

str_to_int(text) ==
  LET n == FoldLeft(LAMBDA acc, c : Wrapped(acc * Base + Value(c)), 0, Unsigned(text))
  IN  IF Negative(text) THEN Wrapped(-n) ELSE n

Digits[n \in Nat] == IF n < Base THEN <<DIGITS[n + 1]>> ELSE Append(Digits[n \div Base], DIGITS[(n % Base) + 1])

\* The mutant of int_to_str: no digit is written for zero.
int_to_str_zero(n) ==
  IF n = 0 THEN <<>> ELSE IF n = INT_MIN THEN <<"-">> ELSE IF n < 0 THEN <<"-">> \o Digits[-n] ELSE Digits[n]

\* The least int is its own negative, so no digit is written for it.
int_to_str(n) == IF n = INT_MIN THEN <<"-">> ELSE IF n < 0 THEN <<"-">> \o Digits[-n] ELSE Digits[n]

-----------------------------------------------------------------------------
(* Commands                                                                *)

IndexOf(name) == SelectInSeq(variables, LAMBDA v : v = name)

resolve_value(name) == IF IndexOf(name) = 0 THEN <<>> ELSE values[IndexOf(name)]

\* A value is a sequence of references and texts.
Expanded(value) ==
  FlattenSeq([i \in DOMAIN value |-> IF value[i].ref THEN resolve_value(value[i].text) ELSE value[i].text])

Becomes(i, text) == values' = [values EXCEPT ![i] = text] /\ UNCHANGED variables

\* A name too many is refused.
Assign(name, text, is_append) ==
  IF IndexOf(name) # 0
  THEN Becomes(IndexOf(name), IF is_append THEN values[IndexOf(name)] \o text ELSE text)
  ELSE IF Len(variables) < MAX_VARIABLES
  THEN variables' = Append(variables, name) /\ values' = Append(values, text)
  ELSE UNCHANGED shellvars

\* Both the variable and the operand must be numbers.
Calculable(name, text) == IndexOf(name) # 0 /\ is_numeric(resolve_value(name)) /\ is_numeric(text)
Sum(name, text, sign) == Wrapped(str_to_int(resolve_value(name)) + sign * str_to_int(text))

Calculate(name, text, sign) ==
  IF Calculable(name, text) THEN Becomes(IndexOf(name), int_to_str(Sum(name, text, sign)))
  ELSE UNCHANGED shellvars

\* The mutant of Unset: the texts are not moved down.
UnsetNames(name) ==
  IF IndexOf(name) = 0 THEN UNCHANGED shellvars
  ELSE variables' = RemoveAt(variables, IndexOf(name)) /\ values' = Front(values)

Unset(name) ==
  IF IndexOf(name) = 0 THEN UNCHANGED shellvars
  ELSE variables' = RemoveAt(variables, IndexOf(name)) /\ values' = RemoveAt(values, IndexOf(name))

UnsetAll == variables' = <<>> /\ values' = <<>>

NoVariables == variables = <<>> /\ values = <<>>

\* The arrays as the function they stand for.
store == [name \in ToSet(variables) |-> resolve_value(name)]
=============================================================================
