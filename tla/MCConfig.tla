------------------------------ MODULE MCConfig ------------------------------
(***************************************************************************)
(* Instances of Config for TLC.  A file is a usual beginning, or a part of *)
(* it, followed by a few lines in every combination and order (at most     *)
(* MaxServiceLines, MaxCommonLines or MaxClientsLines); it may end after   *)
(* any line.                                                               *)
(***************************************************************************)
EXTENDS Config

CONSTANTS MaxServiceLines, MaxCommonLines, MaxClientsLines

MCStrings == {"", "common", "::", "*", "10.0.0.1", "web", "dns", "x", "y",
              "id.key", "srv.pub", "x.pub", "clients.ini"}
MCNumeric4 == {"10.0.0.1"}
MCNumeric6 == {"::"}

Sec(name) == [kind |-> "section", name |-> name]
Key(k, v) == [kind |-> "key", key |-> k, value |-> v]
Bad == [kind |-> "bad"]

Client == <<Sec("common"), Key("mode", "client"),
            Key("identity_private_key", "id.key"),
            Key("server_addr", "::"), Key("client_id", "x"),
            Key("server_public_key", "srv.pub")>>
Web == <<Sec("web"), Key("type", "tcp"), Key("remote_port", 80),
         Key("local_port", 8080)>>
Dns == <<Sec("dns"), Key("type", "udp"), Key("remote_port", 53),
         Key("local_port", 53)>>
Server == <<Sec("common"), Key("mode", "server"),
            Key("identity_private_key", "id.key"),
            Key("authorized_clients_file", "clients.ini")>>

\* The beginnings of a configuration.
ServiceHeads == {Client \o Web, Client \o Dns}
CommonHeads == {<<>>, Server}

\* Keys of [common] and of a service, both kinds of section, and lines that
\* are refused: twice, unknown, out of range, unavailable or too long.
ConfigBody ==
  {Bad, Sec("common"), Sec("web"), Sec("dns"), Sec(""), Sec("overlong"),
   Key("heartbeat_interval", 60),
   Key("pool_count", 0), Key("pool_count", 1),
   Key("default_data_encryption", "off"), Key("log_level", "error"),
   Key("type", "udp"), Key("type", "http"), Key("remote_port", 53),
   Key("local_port", 53), Key("local_port", 0),
   Key("data_encryption", "true"), Key("proxy_protocol", "v2"),
   Key("proxy_protocol", "v1"), Key("udp_max_sessions", 1),
   Key("remote_addr", "10.0.0.1")}

ClientsHeads == {<<>>, <<Sec("x"), Key("public_key", "x.pub")>>}

ClientsBody ==
  {Bad, Sec("x"), Sec("common"), Key("public_key", "x.pub"),
   Key("allow_bind_addr", "*"), Key("allow_bind_addr", "10.0.0.1"),
   Key("allow_remote_port", <<80, 80>>), Key("allow_remote_port", <<82, 90>>),
   Key("allow_remote_port", <<90, 82>>), Key("allow_remote_port", <<0, 80>>),
   Key("allow_remote_port", <<65535, 65536>>),
   Key("max_services", 1), Key("max_services", 3), Key("max_streams", 1)}

\* The lines after t of a file that starts like one of the heads and has at
\* most n lines of the body after it.
Following(t, heads, body, n) ==
  LET Starts(a, b) == Len(a) <= Len(b) /\ SubSeq(b, 1, Len(a)) = a
  IN  {h[Len(t) + 1] : h \in {g \in heads : Len(g) > Len(t) /\ Starts(t, g)}}
        \cup (IF \E h \in heads : Starts(h, t) /\ Len(t) < Len(h) + n
              THEN body ELSE {})

MCConfigMayHave(t) == Following(t, ServiceHeads, ConfigBody, MaxServiceLines)
                        \cup Following(t, CommonHeads, ConfigBody, MaxCommonLines)
MCClientsMayHave(t) == Following(t, ClientsHeads, ClientsBody, MaxClientsLines)

\* The usual surroundings, and one thing different in each of the others.
Usual == [applet |-> "none", env_log |-> {}, env_pool |-> {}, option_log |-> {},
          usable |-> {"id.key", "srv.pub", "x.pub", "clients.ini"},
          long_path |-> FALSE, unreadable |-> FALSE]
MCInputs ==
  {Usual, [Usual EXCEPT !.applet = "client"], [Usual EXCEPT !.applet = "server"],
   [Usual EXCEPT !.env_log = {"error"}, !.option_log = {"warn"}],
   [Usual EXCEPT !.env_log = {"trace"}], [Usual EXCEPT !.option_log = {"trace"}],
   [Usual EXCEPT !.env_pool = {1}], [Usual EXCEPT !.env_pool = {9}],
   [Usual EXCEPT !.long_path = TRUE],
   [Usual EXCEPT !.usable = @ \ {"id.key"}],
   [Usual EXCEPT !.usable = @ \ {"x.pub", "srv.pub"}]}
=============================================================================
