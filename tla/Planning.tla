------------------------------ MODULE Planning ------------------------------
(***************************************************************************)
(* The checks a drafted command goes through (planning::validate_round and *)
(* the filters propose_command_for_execution puts behind it) and the       *)
(* revision the daemon tries by itself (planning::revise_command).  A      *)
(* draft is what the checks can tell of a command line, after              *)
(* sanitize_local_execute_command.                                         *)
(***************************************************************************)
EXTENDS Naturals

\* Which of its commands is not installed: the first, for which the index has
\* a near name ("typo") or is empty ("alien"), or one further down a pipeline
\* ("later").  "swapped": see Improved.  "none": the draft is empty.
Names == {"known", "typo", "alien", "later", "swapped", "none"}

\* "open": unbalanced quotes or grouping.  "cut": it ends in an operator,
\* which makes it a risky construct as well.
Shapes == {"clean", "open", "cut"}

\* Flags missing from the documentation: tokens of their own, or one letter
\* among others of a token.
Flags == {"none", "alone", "compound"}

\* Does it do what the prompt asks?  "unsorted": an ls without the -t it
\* needs.
Effects == {"enough", "unsorted", "short"}

Draft == [name : Names, shape : Shapes, flags : Flags, effect : Effects,
          grounded : BOOLEAN, floor : BOOLEAN, critical : BOOLEAN]
-----------------------------------------------------------------------------
(* parse_command and validate_round *)

Ambiguous(d) == d.shape \in {"open", "cut"}
Risky(d) == d.shape = "cut"

\* The flags are looked up in the documentation of an installed command, for
\* a single command, and only if the model proposed it by a tool call.
FlagsAreChecked(d, fromProvider) ==
  /\ d.name = "known"
  /\ ~Risky(d)
  /\ fromProvider
  /\ ~d.critical

\* validate_prompt_effects, and the test for a sorted listing
Suffices(d) == d.effect = "enough"

\* validate_round and the retain filters after it
Findings(d, fromProvider) ==
  IF d.name = "none"
  THEN {"insufficient_draft"}
  ELSE {kind \in {"unknown_command", "parse_ambiguous", "parse_ambiguous_risky",
                  "missing_grounding", "unsupported_flag",
                  "insufficient_for_prompt"} :
          \/ kind = "unknown_command" /\ d.name # "known"
          \/ kind = "parse_ambiguous" /\ Ambiguous(d)
          \/ kind = "parse_ambiguous_risky" /\ Ambiguous(d) /\ Risky(d)
          \/ kind = "missing_grounding" /\ ~d.grounded
          \/ kind = "unsupported_flag" /\ d.flags # "none"
                                       /\ FlagsAreChecked(d, fromProvider)
          \/ kind = "insufficient_for_prompt" /\ ~Suffices(d)}

\* Findings that documentation from the web may help with.
NeedsWeb(findings) ==
  findings \cap {"missing_grounding", "insufficient_draft",
                 "insufficient_for_prompt", "unknown_command",
                 "unsupported_flag"} # {}
-----------------------------------------------------------------------------
(* revise_command *)

\* The name suggested for a later command replaces the first one all the same.
\* A compound flag token equals none of the flags it is made of, so none of
\* them is stripped; a trailing operator makes the draft risky, so none of
\* those is stripped either.
Improved(d, findings) ==
  [d EXCEPT
    !.name = IF "unknown_command" \notin findings THEN @
             ELSE IF @ = "typo" THEN "known"
             ELSE IF @ = "later" THEN "swapped" ELSE @,
    !.flags = IF "unsupported_flag" \in findings /\ @ = "alone" THEN "none" ELSE @,
    !.effect = IF "insufficient_for_prompt" \in findings /\ @ = "unsorted"
               THEN "enough" ELSE @]

\* None, that is d itself, for a risky draft and for one it cannot improve
Revise(d, findings) ==
  IF d.name = "none" \/ "parse_ambiguous_risky" \in findings
  THEN d
  ELSE Improved(d, findings)

\* What the daemon can still repair by itself.
Repairable(d) ==
  (IF d.name \in {"typo", "later"} THEN 4 ELSE 0) + (IF d.flags = "alone" THEN 2 ELSE 0)
    + (IF d.effect = "unsorted" THEN 1 ELSE 0)
=============================================================================
