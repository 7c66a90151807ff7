---------------------------- MODULE MCScreenForm ----------------------------
(* Small instances of ScreenForm: two options and two texts, which are     *)
(* interchangeable.  A page that has lost its access stays as it is.       *)
EXTENDS ScreenForm, TLC

CONSTANTS a, b

MCQueries == {Options}
Symmetry == Permutations(Texts)
(* Behaviours differ from an undisturbed one by one or two of these: calls *)
(* that fail, options and records that others change.  Lost access comes   *)
(* alone, and in a Lead's form so does a changed record.                   *)
Count(S) == Cardinality(S)
Apart == Count({i \in DOMAIN record : record[i].version > 1})
Disturbances == failures + Count({o \in Options : option[o].version > 1})
                + Apart * (IF kind = "lead" THEN 2 ELSE 1) + (IF may THEN 0 ELSE 2)

(* A Contact's form is shown once and has one option, which is not chosen  *)
(* anew when it is edited; a Lead's text is written once.                  *)
Short == IF kind = "contact"
         THEN /\ option[2].version = 0 /\ mounts <= 1
              /\ editing /\ View = "form" => picker.selected = form.detail.choice
         ELSE IF editing THEN keys <= 1 /\ draft.text \in {"none", record[0].text}
         ELSE \A k \in Keys : sent[k].text \in {"none", draft.text}
Bounds == View # "denied" /\ Disturbances <= 2 /\ Short
=============================================================================
