----------------------------- MODULE WatchScope -----------------------------
(***************************************************************************)
(* What the watch loop needs of a project and of its editors to forget     *)
(* nothing.                                                                *)
(***************************************************************************)
EXTENDS Watch

\* Every discovered file passes is_relevant: no entry of scanFiles has an
\* extension that is not configured.
ASSUME SelectedIsMatched == \A s \in Setting : Selected[s] \subseteq Matched[s]

\* The configuration does not begin to name a baseline while it is watched.
ASSUME BaselineIsNamed ==
    \/ HasBaseline = Setting
    \/ \A c, b1, b2 \in Text \cup {None} : Loads[c][b1] = Loads[c][b2]

\* Nobody edits anything between the initial pass and the registration.
ASSUME QuietStart == ~EditsWhenUnwatched
=============================================================================
