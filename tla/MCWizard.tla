------------------------------ MODULE MCWizard ------------------------------
EXTENDS Wizard

\* Every style, and where a question has several answers that edit the same field, two of
\* them.  The keys of yes and no are all typed.
MCDigits == [q \in ToSet(Questions) |->
    CASE q = "style" -> 1..4
      [] q = "time" -> {1, 3}
      [] q = "color" -> {2}
      [] q = "frame" -> {1, 4}
      [] q \in {"gap", "spacing", "separators"} -> {2}
      [] OTHER -> {1, 2}]
=============================================================================
