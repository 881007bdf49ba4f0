--------------------------- MODULE MCDemoConsole ---------------------------
(* Both consoles for TLC.  A reading of the simulation becomes 3 degrees, as *)
(* a tampering makes it, or 9; the live console's tables are model values.  *)
EXTENDS DemoConsole

Clicked(r, a, c, t, z) ==
  [registration |-> r, anchor |-> a, cell |-> c, text |-> t, reset |-> z]

\* Two companies registered one by one; two anchors; an edited reading; a
\* rewritten block; a fresh start.
MCClicks == {Clicked(2, 1, 0, 0, 0), Clicked(0, 2, 0, 0, 0), Clicked(0, 1, 1, 0, 0),
             Clicked(0, 1, 0, 1, 0), Clicked(0, 1, 0, 0, 1)}

\* A summary that hides a breach, and one that invents it.
MCLies == {[min |-> 1, max |-> 3], [min |-> 2, max |-> 9]}

Pressed(b, r, t, e, n) ==
  [batch |-> b, registry |-> r, table |-> t, evidence |-> e, atOnce |-> n]

\* Two buttons, of any two kinds that meet, with two tasks at once; the table
\* changed twice; a warm run anchored or found and tampered with.
MCPresses == {Pressed(0, 0, 0, 2, 2), Pressed(0, 0, 1, 1, 2), Pressed(1, 0, 0, 1, 2),
              Pressed(1, 1, 0, 0, 2), Pressed(0, 0, 2, 0, 2), Pressed(0, 0, 1, 2, 1)}

=============================================================================
