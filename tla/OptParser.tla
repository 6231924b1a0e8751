------------------------------ MODULE OptParser ------------------------------
(***************************************************************************)
(* rlib::opt_parser: a vector of command-line words from which each query  *)
(* takes what it finds.  A word without "=" is <<text>>, the word          *)
(* "name=value" is <<name, value>>; option names contain no "=".           *)
(* A query returns the words that are left, the value it read (itself a    *)
(* word) and whether it threw.                                             *)
(***************************************************************************)
EXTENDS Integers, SequencesExt

Empty == <<"">>

\* Variant: the name is erased before its value, whose place has then moved.
TakeValueErasing(words, i) ==
  IF Len(words[i]) = 2
  THEN [words |-> RemoveAt(words, i), value |-> <<words[i][2]>>, threw |-> FALSE]
  ELSE IF i = Len(words)
  THEN [words |-> words, value |-> Empty, threw |-> TRUE]
  ELSE [words |-> RemoveAt(RemoveAt(words, i), i + 1), value |-> words[i + 1], threw |-> FALSE]

\* The value of the option at place i, and its words erased: one word when it holds "=",
\* otherwise the name and the word that follows, whatever that is.
TakeValue(words, i) ==
  IF Len(words[i]) = 2
  THEN [words |-> RemoveAt(words, i), value |-> <<words[i][2]>>, threw |-> FALSE]
  ELSE IF i = Len(words)
  THEN [words |-> words, value |-> Empty, threw |-> TRUE]
  ELSE [words |-> RemoveAt(RemoveAt(words, i + 1), i), value |-> words[i + 1], threw |-> FALSE]

\* getValueArg(argName, false): the first word that is the name, or that starts with "name=".
GetValueArg(words, name) ==
  LET pos == SelectInSeq(words, LAMBDA w : w[1] = name)
  IN IF pos = 0 THEN [words |-> words, value |-> Empty, threw |-> FALSE] ELSE TakeValue(words, pos)

\* getValueArg(longName, shortName, false): both are taken out, the long one counts unless
\* it is empty.
GetValueArg2(words, long, short) ==
  LET l == GetValueArg(words, long)
      s == GetValueArg(l.words, short)
  IN IF l.threw THEN l ELSE [s EXCEPT !.value = IF l.value = Empty THEN s.value ELSE l.value]

\* getBoolArg(argName)
GetBoolArg(words, name) ==
  LET pos == SelectInSeq(words, LAMBDA w : w = <<name>>)
  IN [words |-> IF pos = 0 THEN words ELSE RemoveAt(words, pos), value |-> pos # 0]

\* getBoolArg(longName, shortName): the short one is only looked for without the long one.
GetBoolArg2(words, long, short) ==
  LET l == GetBoolArg(words, long)
  IN IF l.value THEN l ELSE GetBoolArg(words, short)
=============================================================================
