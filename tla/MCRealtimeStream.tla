-------------------------- MODULE MCRealtimeStream --------------------------
(* RealtimeStream on one instance that holds streams, beside others that may *)
(* change the configuration; one tab, and the stream it left behind.         *)
EXTENDS RealtimeStream

MCInitially == {[url |-> "rest", token |-> "set"]}

MCTried == { <<Put("url", "cleared"), Put("token", "cleared")>>,
             <<Put("token", "cleared"), Put("url", "tcp")>> }
=============================================================================
