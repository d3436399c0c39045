------------------------------ MODULE Redaction ------------------------------
(***************************************************************************)
(* redaction.py on a text that holds one number.  Of the text only the way *)
(* the number is written matters: as one block of digits, as blocks of     *)
(* digits, digit by digit, or in words; how many digits and tokens that    *)
(* is; and whether more than one blank or dash stands between the tokens   *)
(* (wide: a comma, or several characters).                                 *)
(***************************************************************************)
EXTENDS Integers

Forms == {"block", "blocks", "digits", "words"}

Numbers == [form: Forms, len: Nat, tokens: Nat, wide: BOOLEAN]

(* POC account numbers.                                                    *)
ACCOUNT_DIGITS == 10

(* "double zero" and "triple one" are single tokens.                       *)
WellFormed(n) ==
    /\ n.len >= 1
    /\ n.form = "block"  => n.tokens = 1
    /\ n.form = "blocks" => n.tokens \in 2..(n.len - 1)
    /\ n.form = "digits" => n.tokens = n.len /\ n.len >= 2
    /\ n.form = "words"  => n.tokens <= n.len /\ n.len <= 3 * n.tokens

-----------------------------------------------------------------------------
(* How many digits a replacement shows.                                    *)
mask_value(len) == IF len >= 4 THEN 4 ELSE 0

mask_number_run(len) == IF len >= 8 THEN mask_value(len) ELSE 0

(* KnownPII.add keeps no short values; its pattern allows one blank or     *)
(* dash between two digits.                                                *)
Registered(len) == len >= 6

(* A definition named Slip... is a plausible slip in the one it precedes.  *)
SlipExactOnly(n) == n.form = "block"

KnownMatches(n) == n.form \in {"block", "blocks", "digits"} /\ (n.form = "block" \/ ~n.wide)

PatternMatches(n) == n.form = "block" /\ n.len \in {9, 10, 13}

RunMatches(n) == n.form \in {"words", "digits"} /\ n.tokens >= 4

(* mask_text: how many digits of the number can still be read, if its      *)
(* value is known or not.                                                  *)
Readable(n, known) ==
    IF known /\ Registered(n.len) /\ KnownMatches(n) THEN mask_value(n.len)
    ELSE IF PatternMatches(n) THEN mask_value(n.len)
    ELSE IF RunMatches(n) THEN mask_number_run(n.len)
    ELSE n.len

=============================================================================
