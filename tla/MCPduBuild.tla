---------------------------- MODULE MCPduBuild ----------------------------
(* PduBuild on a request and a response that are built and a received      *)
(* message, with an option besides the content format.                     *)
EXTENDS PduBuild

CONSTANTS req, rsp, rcv, v1, v2, b1, b2

(* Observe and Content-Format.                                             *)
obs == 6
cf == 12

MCPdu == {req, rsp, rcv}
MCRequest == {req}
MCBuilt == {req, rsp}
MCNumber == {obs, cf}
MCValue == {v1, v2}
MCData == {b1, b2}

(* The request is full with both options, the response with data as well.  *)
MCMaxSize == [p \in MCPdu |-> IF p = req THEN 2 ELSE 3]

(* Data with a content format and without.                                 *)
MCReceived ==
    {[options |-> [n \in MCNumber |-> IF n = cf THEN v ELSE NoValue],
      data |-> b1, max_size |-> 3] : v \in {v1, NoValue}}
==========================================================================
