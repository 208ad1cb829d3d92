------------------------ MODULE MCPreferencesFilter -------------------------
(* The day on which the clocks go forward, in half hours: from 02:00 to    *)
(* 03:00, east of Greenwich, and quiet hours from 02:30 to 03:00.          *)
EXTENDS PreferencesFilter

MCSpringForward ==
  {[enabled |-> TRUE,
    quiet |-> [on |-> TRUE, zone |-> [at |-> 4, skip |-> 2, east |-> TRUE],
               start |-> 5, end |-> 6]]}
=============================================================================
