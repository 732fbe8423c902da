----------------------------- MODULE SExpressions -----------------------------
(***************************************************************************)
(* src/lisp and the readers of src/util: how the text of a workspace file  *)
(* becomes tokens, lists and values.  A text is a sequence of characters   *)
(* [c, v]; what a token is built from is one character: a word is [c |->   *)
(* the word], a number is an "int", a "real" (with a point) or an "exp"    *)
(* (in exponential notation) of value v.                                   *)
(***************************************************************************)
EXTENDS Integers, Sequences, SequencesExt, FiniteSetsExt

Char(c)      == [c |-> c, v |-> 0]
Number(c, n) == [c |-> c, v |-> n]
Text(cs)     == [i \in DOMAIN cs |-> Char(cs[i])]

Blanks == {"space", "newline"}
Delims == {"quote", "(", ")", ";"}

Token(type, string) == [type |-> type, string |-> string]

(* The first position from i on whose character is among cs. *)
Next1(text, i, cs) == Min({j \in i .. Len(text) : text[j].c \in cs} \cup {Len(text) + 1})

(* Of a string: where it ends and what it holds, backslashes resolved. *)
StringFrom(text, i) ==
  LET s[j \in i .. Len(text) + 2] ==
        IF j > Len(text) THEN [end |-> 0, string |-> <<>>]
        ELSE IF text[j].c = "quote" THEN [end |-> j, string |-> <<>>]
        ELSE LET k == IF text[j].c = "backslash" THEN j + 1 ELSE j
             IN  IF k > Len(text) THEN [end |-> 0, string |-> <<>>]
                 ELSE [end |-> s[k + 1].end, string |-> <<text[k]>> \o s[k + 1].string]
  IN  s[i]

(* Digits and at most one point make a number, anything else a symbol. *)
WordType(word) ==
  CASE Len(word) = 1 /\ word[1].c = "int"  -> "integer"
    [] Len(word) = 1 /\ word[1].c = "real" -> "real"
    [] OTHER -> "symbol"

(* Lexer: the tokens of a text; what it throws is an "error". *)
Tokens(text) ==
  LET t[i \in 1 .. Len(text) + 1] ==
        IF i > Len(text) THEN <<Token("eof", <<>>)>>
        ELSE LET c == text[i].c
             IN  CASE c \in Blanks -> t[i + 1]
                   [] c = ";" -> t[Next1(text, i, {"newline"})]
                   [] c \in {"(", ")"} -> <<Token(c, <<>>)>> \o t[i + 1]
                   [] c = "quote" ->
                        LET s == StringFrom(text, i + 1)
                        IN  IF s.end = 0 THEN <<Token("error", <<>>)>>
                            ELSE <<Token("string", s.string)>> \o t[s.end + 1]
                   [] OTHER ->
                        LET j == Next1(text, i, Blanks \cup Delims)
                            word == SubSeq(text, i, j - 1)
                        IN  <<Token(WordType(word), word)>> \o t[j]
  IN  t[1]

List(items) == [type |-> "list", items |-> items]
Atom(token) == [type |-> token.type, items |-> token.string]

(* Parser::parse(): the elements up to a closing parenthesis, and the      *)
(* position of the token after them.                                       *)
Elements(tokens) ==
  LET Fails == [ok |-> FALSE, items |-> <<>>, next |-> Len(tokens)]
      p[i \in 1 .. Len(tokens)] ==
        CASE tokens[i].type \in {")", "eof"} -> [ok |-> TRUE, items |-> <<>>, next |-> i]
          [] tokens[i].type = "error" -> Fails
          [] tokens[i].type = "(" ->
               LET inner == p[i + 1]
                   rest == p[inner.next + 1]
               IN  IF inner.ok /\ tokens[inner.next].type = ")" /\ rest.ok
                     THEN [rest EXCEPT !.items = <<List(inner.items)>> \o @]
                     ELSE Fails
          [] OTHER ->
               LET rest == p[i + 1]
               IN  IF rest.ok THEN [rest EXCEPT !.items = <<Atom(tokens[i])>> \o @] ELSE Fails
  IN  p[1]

Throws == [type |-> "throws", items |-> <<>>]

(* FileReader::parse(): the first list of the file. *)
Parse(text) ==
  LET tokens == Tokens(text)
      top == Elements(tokens)
  IN  IF tokens[1].type = "(" /\ top.ok /\ tokens[top.next].type = "eof"
        THEN top.items[1] ELSE Throws

-----------------------------------------------------------------------------
(* SExprFileReaderImpl *)

IsNamed(sexpr, name) ==
  sexpr.type = "list" /\ sexpr.items # <<>> /\ sexpr.items[1] = Atom(Token("symbol", Text(<<name>>)))

(* get_subsection(): the first section of that name, or an empty list. *)
Section(sexpr, name) ==
  LET found == {i \in 2 .. Len(sexpr.items) : IsNamed(sexpr.items[i], name)}
  IN  IF found = {} THEN List(<<>>) ELSE sexpr.items[Min(found)]

Sections(sexpr) == IF sexpr.items = <<>> THEN <<>> ELSE Tail(sexpr.items)

(* read_string(): the strings and symbols of the section in one. *)
ReadString(sexpr, name) ==
  FoldLeft(LAMBDA s, item : IF item.type \in {"string", "symbol"} THEN s \o item.items ELSE s,
           <<>>, Sections(Section(sexpr, name)))

IsNumber(item) == item.type \in {"integer", "real"}
Value(item)    == item.items[1].v

(* Mutant of ReadFloat: a number without a point is none. *)
ReadReal(sexpr, name, default) ==
  LET items == Section(sexpr, name).items
  IN  IF Len(items) = 2 /\ items[2].type = "real" THEN Value(items[2]) ELSE default

(* read_float(), or the default when there is no such number. *)
ReadFloat(sexpr, name, default) ==
  LET items == Section(sexpr, name).items
  IN  IF Len(items) = 2 /\ IsNumber(items[2]) THEN Value(items[2]) ELSE default

(* read_vector2f(); get_float() throws when an element is no number. *)
VectorThrows(sexpr, name) ==
  LET items == Section(sexpr, name).items
  IN  Len(items) = 3 /\ \E i \in {2, 3} : ~IsNumber(items[i])

ReadVector(sexpr, name, default) ==
  LET items == Section(sexpr, name).items
  IN  IF Len(items) = 3 THEN [x |-> Value(items[2]), y |-> Value(items[3])] ELSE default
===============================================================================
