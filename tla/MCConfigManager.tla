---------------------------- MODULE MCConfigManager ----------------------------
(***************************************************************************)
(* Two slots and a queue of one.  One slot moves the first interface, the   *)
(* other one turns the filters round.                                       *)
(***************************************************************************)
EXTENDS ConfigManager

CONSTANTS c1, c2

Net(ip, mac) == [ip |-> ip, mask |-> 24, gateway |-> 0, mac |-> mac]
Capture == [isCapture |-> FALSE, isAutoUpLoad |-> FALSE, autoUpLoadPath |-> <<>>]

Delivered ==
  [net |-> <<Net(1, 0), Net(2, 0)>>,
   capture |-> <<Capture, Capture>>,
   filter |-> <<TRUE, FALSE>>,
   passwd |-> <<<<"a">>, <<"a">>>>]

Moved == <<Net(3, 0), Net(2, 0)>>
Turned == <<FALSE, TRUE>>

SomeNets == {Moved}
SomeFilters == {Turned}
None == {}

SomeAsk ==
  [c \in Clients |-> IF c = c1 THEN [field |-> "net", value |-> Moved]
                     ELSE [field |-> "filter", value |-> Turned]]
===============================================================================
