----------------------------- MODULE MCFwFilter -----------------------------
(* Two filters of one protocol, one of them with changing rules, and the way of  *)
(* a buffer through the components of an interface: a behaviour picks one part   *)
(* and only it moves.                                                            *)
EXTENDS FwFilter, FwBuffers

VARIABLE part     \* the part that moves

\* Two hosts, two ports and one-bit addresses: a connection from host 0 to host 1
\* and its return traffic.
Endpoint(ip, port) == [ip |-> ip, port |-> port]
BothWays == {[src |-> Endpoint(0, 1), dst |-> Endpoint(1, 2)], [src |-> Endpoint(1, 2), dst |-> Endpoint(0, 1)]}

\* Two rules that overlap: one names a host, the other a port.
Anywhere == [ip |-> 0, len |-> 0]
Host(ip) == [ip |-> ip, len |-> 1]
SomeShapes ==
    {[src |-> Host(0), dst |-> Anywhere, sport |-> AnyPort, dport |-> AnyPort],
     [src |-> Anywhere, dst |-> Anywhere, sport |-> AnyPort, dport |-> 2]}

\* Every queue between two components, most with a third behind them.
Detail(d, p) == [detail |-> d, passing |-> p]
SomeSystems ==
  {Detail({"driver", "virtRx", "filter"}, {}),
   Detail({"filter", "router"}, {"driver", "virtRx"}),
   Detail({"virtRx", "router", "webserver"}, {"driver", "filter"}),
   Detail({"virtRx", "virtTx"}, {"driver", "filter", "router"}),
   Detail({"router", "virtTx"}, {"driver", "virtRx", "filter"}),
   Detail({"virtRx", "responder"}, {"driver"}),
   Detail({"responder", "virtTx"}, {"driver", "virtRx"}),
   Detail({"icmp", "virtTx"}, {"driver"}),
   Detail({"driver", "virtTx"}, {"icmp"})}

InitAll ==
  /\ part \in {"filter", "buffers"}
  /\ Init /\ BuffersInit
  /\ part = "filter" => system = Detail({"icmp", "virtTx"}, {"driver"})

NextAll ==
  /\ UNCHANGED part
  /\ \/ part = "filter" /\ Next /\ UNCHANGED bufferVars
     \/ part = "buffers" /\ BuffersNext /\ UNCHANGED vars

SpecAll == InitAll /\ [][NextAll]_<<part, vars, bufferVars>>
=============================================================================
