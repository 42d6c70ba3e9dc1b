------------------------------- MODULE MCConn -------------------------------
(***************************************************************************)
(* Instances of Conn.  The connection is started in every combination of   *)
(* TLS and SASL, and used in the plainest.                                 *)
(***************************************************************************)
EXTENDS Conn

Configuration(tls, sasl, cancellable) == [tls |-> tls, sasl |-> sasl, cancellable |-> cancellable]

MCWorking == Configuration(FALSE, {}, FALSE)

MCConfigs ==
    {MCWorking}
    \cup {Configuration(tls, sasl, TRUE) :
             tls \in BOOLEAN, sasl \in {{}, {"PLAIN"}, {"PLAIN", "XOAUTH2"}}}

\* The peer offers nothing known, or knows XOAUTH2 before PLAIN.
MCOffers == {<< "SCRAM" >>, << "SCRAM", "PLAIN" >>, << "XOAUTH2", "PLAIN" >>}
=============================================================================
