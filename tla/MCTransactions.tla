--------------------------- MODULE MCTransactions ---------------------------
(* Transactions with a window manager, a bar and an admission extension; and *)
(* the transactions that settle outputs (Outputs), which share no state with *)
(* the first: a behaviour is one of either, as part says.  The outputs are a *)
(* window of a host, a virtual one and a monitor, and the backend refuses    *)
(* the size huge of both but the virtual one.                                *)
EXTENDS Transactions, Outputs

CONSTANTS wm, bar, gate

VARIABLE part

Gate == <<gate>>

\* The bar reads a derived key of the windows and of all layouts, the window
\* manager what the bar writes; the gate decides on what they did, binds keys and declares
\* rules, for a window of which the window manager may have just heard.
ReadsOf ==
  [e \in Roots |-> CASE e = wm   -> {"windows", "data"}
                     [] e = bar  -> {"window-geometry"}
                     [] e = gate -> {"layout", "key"}]

WritesOf == [e \in Roots |-> IF e = bar THEN "data" ELSE "layout"]

Answer(values, rules, commands) ==
  [value : values, rule : rules, command : commands]

SaysOf ==
  [s \in Roots \cup {"rule"} |->
     CASE s = wm     -> Answer({0, 1}, {FALSE}, {FALSE})
       [] s = bar    -> Answer({0, 1}, {FALSE}, {FALSE})
       [] s = gate   -> Answer({0}, BOOLEAN, BOOLEAN)
       [] s = "rule" -> Answer({0}, {FALSE}, BOOLEAN)]

ArmedOf == {gate} \cup Kids

\* The policy's word on the window, the monitor, the size of the virtual output and
\* that of nested windows.
Wants(window, monitor, virtual, nested) ==
  [outputs |-> [window |-> window, monitor |-> monitor, virtual |-> Unset],
   virtual |-> [virtual |-> virtual], nested |-> nested]

Wishes == {Wants(Unset, Unset, Unset, "small"), Wants("large", Unset, Unset, "small"),
           Wants(Unset, "off", "small", "small"), Wants(Unset, Unset, "large", "large")}

Refusals == [window |-> {"huge"}, monitor |-> {"huge"}, virtual |-> {}]

BothInit == part \in {"context", "outputs"} /\ Init /\ OutputsInit

BothNext ==
  /\ \/ part = "context" /\ Next /\ UNCHANGED outputVars
     \/ part = "outputs" /\ OutputsNext /\ UNCHANGED vars
  /\ UNCHANGED part

BothSpec == BothInit /\ [][BothNext]_<<vars, outputVars, part>>
=============================================================================
