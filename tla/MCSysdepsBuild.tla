--------------------------- MODULE MCSysdepsBuild ---------------------------
(* Two runs of sd-run: one module with 'custom', one with searches.          *)
EXTENDS SysdepsBuild

CONSTANTS m1, m2, p1, p2

MCTask(do, q) == [do |-> do, probe |-> q]
MCTasks ==
  <<MCTask("compile", p1), MCTask("run", p1), MCTask("header", Nobody),
    MCTask("compile", p2), MCTask("ada", Nobody)>>
MCFewTasks ==
  <<MCTask("compile", p1), MCTask("run", p1), MCTask("header", Nobody), MCTask("ada", Nobody)>>
=============================================================================
