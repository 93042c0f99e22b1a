------------------------------- MODULE Tools --------------------------------
(***************************************************************************)
(* What is built on topics and services and tells its users how calls and  *)
(* waits ended: the parameters' registry and clients, the command `gz      *)
(* service` with the waits for providers, and the commands on topics.  The *)
(* three share no state.                                                   *)
(***************************************************************************)
EXTENDS Parameters, ServiceCommand, TopicCommands

ToolsSpec == ParamsSpec /\ CommandSpec /\ TopicSpec

\* What the clients of the registry, and the users of the command line, are
\* told was so at some time of the call or the wait, and the commands publish,
\* print and end as asked (Parameters, ServiceCommand, TopicCommands;
\* Client.cc:71-252, Registry.cc:120-359, Node.cc:1211-1281, gz.cc:138-551).
ToldRight == ParamsTold /\ Truthful /\ CommandsServe
=============================================================================
