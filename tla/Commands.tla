------------------------------ MODULE Commands ------------------------------
(***************************************************************************)
(* The text of a command or callback (rpcs/commands.go): the name of a     *)
(* script followed by arguments in single quotes.  A text is a sequence of *)
(* characters; the ones that matter are the space " " and the quote "'".   *)
(***************************************************************************)
EXTENDS Naturals, Sequences, FiniteSetsExt

(* strings.Trim and strings.TrimSpace. *)
Trim(s, c) ==
  LET kept == {n \in 1..Len(s) : s[n] # c}
  IN  IF kept = {} THEN <<>> ELSE SubSeq(s, Min(kept), Max(kept))

Unquoted(s) == Trim(Trim(s, " "), "'")

EncodeCommand(name, args) ==
  LET text[n \in 0..Len(args)] ==
        IF n = 0 THEN name ELSE text[n - 1] \o <<" ", "'">> \o args[n] \o <<"'">>
  IN  text[Len(args)]

(* Mutant: a search that starts after the first character. *)
PopFirstLater(content) ==
  LET cuts == {n \in 2..Len(content) - 1 : content[n] = " " /\ content[n + 1] = "'"}
  IN  IF cuts = {} THEN [first |-> Unquoted(content), left |-> <<>>]
      ELSE [first |-> Unquoted(SubSeq(content, 1, Min(cuts) - 1)),
            left |-> Unquoted(SubSeq(content, Min(cuts), Len(content)))]

(* The text up to the first space that a quote follows, and the rest. *)
PopFirst(content) ==
  LET cuts == {n \in 1..Len(content) - 1 : content[n] = " " /\ content[n + 1] = "'"}
  IN  IF cuts = {} THEN [first |-> Unquoted(content), left |-> <<>>]
      ELSE [first |-> Unquoted(SubSeq(content, 1, Min(cuts) - 1)),
            left |-> Unquoted(SubSeq(content, Min(cuts), Len(content)))]

(* Until nothing is left. *)
DecodeCommand(content) ==
  LET left[n \in 0..Len(content) + 1] == IF n = 0 THEN content ELSE PopFirst(left[n - 1]).left
      pops == Min({n \in 1..Len(content) + 1 : left[n] = <<>>})
  IN  [n \in 1..pops |-> PopFirst(left[n - 1]).first]

(* What a handler can count on: empty arguments at the end are gone. *)
DropEmpty(args) == SubSeq(args, 1, Max({0} \cup {n \in DOMAIN args : args[n] # <<>>}))
=============================================================================
