---------------------------- MODULE MCConfigStore ----------------------------
(***************************************************************************)
(* Small instances of ConfigStore.  Addresses are small numbers; 0 and -1   *)
(* are the ones is_netipvalid refuses.                                      *)
(***************************************************************************)
EXTENDS ConfigStore

Net(ip, mask, gateway, mac) == [ip |-> ip, mask |-> mask, gateway |-> gateway, mac |-> mac]

NetA == Net(1, 24, 9, 1)
NetB == Net(2, 24, 0, 2)
NetMoved == Net(3, 24, 9, 1)      \* another address, the same mac
NetRemade == Net(1, 16, 0, 3)     \* another mask, gateway and mac
NetNoMask == Net(3, -1, 0, 3)     \* refused after its ip was set
NetNoIp == Net(0, 24, 9, 3)       \* refused at once

Capture(c, a, path) == [isCapture |-> c, isAutoUpLoad |-> a, autoUpLoadPath |-> path]

Delivered ==
  [net |-> <<NetA, NetB>>,
   capture |-> <<Capture(TRUE, FALSE, <<"p">>), Capture(FALSE, FALSE, <<>>)>>,
   filter |-> <<TRUE, FALSE>>,
   passwd |-> <<<<"a">>, <<"a">>>>]

(* The same with interfaces that come with the gateway and mac they are to  *)
(* have, for the runs that are not about the interfaces.                    *)
Settled == [Delivered EXCEPT !.net = <<Net(1, 24, 0, 0), Net(2, 24, 0, 0)>>]

SomeNetPairs == {<<NetMoved, NetB>>, <<NetRemade, NetNoMask>>, <<NetNoIp, NetB>>}
SomeTestNets == {NetRemade, NetNoMask}

SomeCaptures == {<<Capture(FALSE, TRUE, <<"p", "q">>), Capture(TRUE, FALSE, <<>>)>>}
SomeFilters == {<<FALSE, TRUE>>}
SomeKeys == {<<>>, <<"a">>, <<"b", "a">>, <<"a", "none">>, <<"a", "b", "a">>}
None == {}
===============================================================================
