------------------------------ MODULE LuaText ------------------------------
(* A Lua source as the loader of lua/src/sandbox.rs sees it, which does not   *)
(* parse it: it searches the text.  A text is a sequence of tokens, each a    *)
(* kind and its characters (or its number); punctuation and keywords are      *)
(* words, and a line break is the word "\n" (column 0) or "\n  " (indented).  *)
(* A name is searched anywhere, within longer words and within strings too;   *)
(* TLC's strings are sequences of characters, which is how one is searched.   *)
(* NONE is Rust's None.                                                       *)
EXTENDS Integers, SequencesExt

CONSTANT NONE

W(word)   == <<"word", word>>
S(string) == <<"string", string>>
N(number) == <<"number", number>>

Break  == W("\n")
Indent == W("\n  ")

--------------------------------------------------------------------------
(* Searching.                                                                *)

HasPart(text, part) ==
  \E i \in 1..(Len(text) - Len(part) + 1) : SubSeq(text, i, i + Len(part) - 1) = part

Holds(token, part) == token[1] # "number" /\ HasPart(token[2], part)

\* The first token that contains the name; 0 when there is none.
Find(text, part) == SelectInSeq(text, LAMBDA token : Holds(token, part))
Mentions(text, part) == Find(text, part) # 0

After(text, i) == SubSeq(text, i + 1, Len(text))

\* The first token equal to this one after position i; 0 when there is none.
NextToken(text, i, token) == LET at == SelectInSeq(After(text, i), LAMBDA t : t = token)
                        IN IF i = 0 \/ at = 0 THEN 0 ELSE i + at

\* What follows the first equals sign after position i.
ValueAfter(text, i) == LET equals == NextToken(text, i, W("="))
                       IN IF equals = 0 THEN <<>> ELSE After(text, equals)

quoted_strings(text) == LET quoted == SelectSeq(text, LAMBDA t : t[1] = "string")
                        IN [i \in DOMAIN quoted |-> quoted[i][2]]

first_quoted(text) == LET quoted == quoted_strings(text)
                      IN IF quoted = <<>> THEN NONE ELSE Head(quoted)

--------------------------------------------------------------------------
(* Tables.                                                                   *)

Braces(text) == SelectSeq([i \in DOMAIN text |-> i], LAMBDA i : text[i] \in {W("{"), W("}")})

\* How many tables are open before position i; the texts that are searched close what they open.
Depth(text, i) == Cardinality({j \in 1..(i - 1) : text[j] = W("{")})
                    - Cardinality({j \in 1..(i - 1) : text[j] = W("}")})

\* Of these braces the one that closes the first, `depth' tables having been opened before.
RECURSIVE Closing(_, _, _)
Closing(text, braces, depth) ==
  LET inside == IF text[Head(braces)] = W("{") THEN depth + 1 ELSE depth - 1
  IN IF inside = 0 THEN Head(braces) ELSE Closing(text, Tail(braces), inside)

\* Where the table ends that opens at this position.
matching_brace(text, open) == Closing(text, SelectSeq(Braces(text), LAMBDA i : i >= open), 0)

\* The inside of the first table after position i; NONE when no table follows.
BodyAfter(text, i) == LET open == NextToken(text, i, W("{"))
                      IN IF open = 0 THEN NONE
                         ELSE SubSeq(text, open + 1, matching_brace(text, open) - 1)

\* The first place outside every table where the field is given a value; 0 when there is none.
top_level_field_index(text, field) ==
  LET given == {i \in 1..(Len(text) - 1) : text[i] = W(field) /\ text[i + 1] = W("=") /\ Depth(text, i) = 0}
  IN IF given = {} THEN 0 ELSE Min(given)

\* The insides of the tables that are not in another.
RECURSIVE top_level_tables(_)
top_level_tables(text) ==
  LET open == SelectInSeq(text, LAMBDA t : t = W("{"))
      end  == matching_brace(text, open)
  IN IF open = 0 THEN <<>>
     ELSE <<SubSeq(text, open + 1, end - 1)>> \o top_level_tables(After(text, end))

--------------------------------------------------------------------------
(* Fields.  The first four take the name wherever it is first contained.      *)

field_string(text, field) == first_quoted(ValueAfter(text, Find(text, field)))

\* -1, which every caller refuses, for what is not a number.
field_u64(text, field) ==
  LET value == ValueAfter(text, Find(text, field))
  IN CASE value = <<>> -> NONE
       [] value # <<>> /\ value[1][1] = "number" -> value[1][2]
       [] OTHER -> -1

table_body_after(text, field) == BodyAfter(text, Find(text, field))
NoTableAfter(text, field)     == Mentions(text, field) /\ table_body_after(text, field) = NONE

has_field(text, field) == top_level_field_index(text, field) # 0

table_body_field_after(text, field) == BodyAfter(text, top_level_field_index(text, field))

\* field_i64, field_f32, field_bool and field_identifier: the token at a field of this table.
field_value(text, field) ==
  LET value == ValueAfter(text, top_level_field_index(text, field))
  IN IF value = <<>> THEN NONE ELSE Head(value)
============================================================================
