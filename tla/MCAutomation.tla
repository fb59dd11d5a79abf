---------------------------- MODULE MCAutomation ----------------------------
EXTENDS Automation

CONSTANTS p1, p2

\* The build plan and a BUILD step.
TwoPhases == <<"phase1", "phase2">>

\* Nothing; everything, in a block or on one line; and a block with a typo.
Edits ==
    { [form |-> "absent", phases |-> {}],
      [form |-> "block", phases |-> Phase],
      [form |-> "flow", phases |-> Phase],
      [form |-> "invalid", phases |-> {}] }
=============================================================================
