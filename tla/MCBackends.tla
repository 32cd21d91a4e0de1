----------------------------- MODULE MCBackends -----------------------------
(* Instances of Backends for TLC.                                          *)
EXTENDS Backends, TLC

Server    == [kinds |-> {"accept", "read"}, open |-> 2]
Acceptor  == [kinds |-> {"accept"}, open |-> 2]
Client    == [kinds |-> {"task", "connect", "read", "write", "send"}, open |-> 1]
Datagrams == [kinds |-> {"recv"}, open |-> 1]

\* Everything once, and two sockets where descriptors move or share a list.
MCApps ==
  [poll   |-> {Server, Client},
   kqueue |-> {Acceptor},
   select |-> {Acceptor, Client, Datagrams}]
=============================================================================
