------------------------------- MODULE Config -------------------------------
(***************************************************************************)
(* Loading a configuration: ct_config_load, ct_config_validate,            *)
(* ct_authorized_load and ct_config_validate_security_files of             *)
(* src/src/config/config.c, in the order in which ct_applet_load_config of *)
(* src/src/applets/common.c calls them.  The two files are read a line at  *)
(* a time; what the lines still to come will be is open until they are     *)
(* read.                                                                   *)
(*                                                                         *)
(* A line is what the parser distinguishes after trimming: the header of a *)
(* section, a key with its value, or a line it cannot split ("bad": too    *)
(* long, a broken header, no '=').  Blank lines and comments are skipped   *)
(* by the code and have no counterpart.  A number is what strtol makes of  *)
(* the whole value, -1 where it does not read all of it or sets errno.  It *)
(* makes 0 of an empty value (glibc); without the work pool, where         *)
(* set_common compares texts, only "0" is 0.  A port range is the pair of  *)
(* its two numbers; a string is one of Strings, or longer than its buffer. *)
(***************************************************************************)
EXTENDS Integers, Sequences, FiniteSets, FiniteSetsExt

CONSTANTS
  Features,            \* what the build has of AllFeatures
  LogLevels,           \* the names of the log levels compiled in
  DEFAULT_LOG_LEVEL,   \* CONFIG_LOG_*
  MAX_SERVICES, MAX_CLIENTS, MAX_STREAMS, MAX_PENDING_STREAMS,
  MAX_PORT_RANGES, MAX_UDP_SESSIONS, MAX_UDP_DATAGRAM_SIZE,
  DEFAULT_POOL_COUNT, DEFAULT_MAX_STREAMS, DEFAULT_MAX_PENDING_STREAMS,
  Strings,             \* the strings that fit the buffer of their field
  Numeric4, Numeric6,  \* those inet_pton reads as IPv4 and as IPv6 addresses
  ConfigMayHave(_),    \* the lines that may follow the lines read so far
  ClientsMayHave(_),   \* the same, for the file of authorized clients
  Inputs               \* what surrounds the files: see Input

AllFeatures ==
  {"SERVER", "CLIENT", "IPV4", "IPV6", "UDP", "DATA_ENCRYPTION", "WORK_POOL",
   "PROXY_PROTOCOL", "PROXY_PROTOCOL_V1", "PROXY_PROTOCOL_V2", "ENV_OVERRIDE"}

\* What the outcome depends on besides the two files: the role of the applet
\* ("none" for configtest), the environment variables and the command line's
\* --log-level (each a set with the value, or empty), the key and policy files
\* that pass their checks, whether the directory of the configuration is too
\* long for a log file in it, and whether an open or a read failed.
Input == [applet : {"none", "server", "client"}, env_log : SUBSET STRING,
          env_pool : SUBSET Int, option_log : SUBSET STRING,
          usable : SUBSET Strings, long_path : BOOLEAN, unreadable : BOOLEAN]

\* What Kconfig and ctkconfig.py keep of the generated header: defaults within
\* their limits, but for the pool's, which nothing compares with MAX_STREAMS.
ASSUME ConfigAssumption ==
  /\ Features \subseteq AllFeatures
  /\ {MAX_SERVICES, MAX_CLIENTS, MAX_STREAMS, MAX_PENDING_STREAMS,
      MAX_PORT_RANGES, MAX_UDP_SESSIONS} \subseteq Nat \ {0}
  /\ DEFAULT_LOG_LEVEL \in LogLevels
  /\ Inputs \subseteq {in \in Input : ~in.unreadable}
  /\ DEFAULT_MAX_STREAMS \in 1..MAX_STREAMS
  /\ DEFAULT_MAX_PENDING_STREAMS \in 1..MAX_PENDING_STREAMS
  /\ DEFAULT_POOL_COUNT \in (IF "WORK_POOL" \in Features THEN Nat ELSE {0})

VARIABLES
  phase,        \* "config", "clients", "override", then "accepted",
                \* "refused" at a line or "invalid" as a whole
  text,         \* history: the lines of the configuration read
  clientsText,  \* history: the lines of the authorized clients read
  input,        \* the surroundings, fixed when the configuration was read
  common,       \* the settings of [common]
  services,     \* the service sections, in their order
  section,      \* the name of the section being read, "" before the first
  common_seen,  \* the keys of [common] so far
  section_seen, \* the keys of the section being read
  clients       \* the authorized clients, in their order

vars == <<phase, text, clientsText, input, common, services, section,
          common_seen, section_seen, clients>>

Has(f) == f \in Features

-----------------------------------------------------------------------------
(***************************************************************************)
(* Keys: the values each one accepts.                                      *)
(***************************************************************************)
Encrypt == {"true", "yes", "on", "enabled", "required"}
Plain == {"false", "no", "off", "disabled"}

\* The words that enc() takes, and what it makes of them.
EncWords == Plain \cup (IF Has("DATA_ENCRYPTION") THEN Encrypt ELSE {})
enc(v) == IF v \in Encrypt THEN "required" ELSE "disabled"

Cipher == "xchacha20-poly1305"

\* The numbers that integer() takes, between its two limits.
integer(lo, hi) == lo..hi

PortNumbers == integer(1, 65535)

\* set_common: STR, INT and the keys with words of their own.
CommonKeys ==
  [bind_addr |-> Strings, server_addr |-> Strings, client_id |-> Strings,
   identity_private_key |-> Strings, server_public_key |-> Strings,
   authorized_clients_file |-> Strings, log_file |-> Strings,
   mode |-> {m \in {"server", "client"} :
                Has(IF m = "server" THEN "SERVER" ELSE "CLIENT")},
   bind_port |-> PortNumbers, server_port |-> PortNumbers,
   allowed_ciphers |-> {Cipher}, preferred_cipher |-> {Cipher},
   default_data_encryption |-> EncWords, log_level |-> LogLevels,
   heartbeat_interval |-> integer(1, 3600), heartbeat_timeout |-> integer(2, 7200),
   handshake_timeout |-> integer(1, 120), connect_timeout |-> integer(1, 120),
   reconnect_initial_delay |-> integer(1, 3600),
   reconnect_max_delay |-> integer(1, 86400),
   reconnect_jitter_percent |-> integer(0, 90),
   pool_count |-> IF Has("WORK_POOL") THEN integer(0, MAX_STREAMS) ELSE {0},
   max_clients |-> integer(1, MAX_CLIENTS),
   max_services_per_client |-> integer(1, MAX_SERVICES),
   max_streams_per_client |-> integer(1, MAX_STREAMS),
   max_pending_streams |-> integer(1, MAX_PENDING_STREAMS),
   log_rotate_days |-> integer(0, 3650), log_max_size_kib |-> integer(64, 1048576),
   control_encryption |-> {"required"}, auth_mode |-> {"public-key"}]

\* set_service.  Keys of a feature that is not compiled in are refused, as
\* unknown or as unavailable.
ServiceKeys ==
  [type |-> {"tcp", "http", "https"} \cup (IF Has("UDP") THEN {"udp"} ELSE {}),
   remote_addr |-> Strings, local_addr |-> Strings,
   remote_port |-> PortNumbers, local_port |-> PortNumbers,
   data_encryption |-> EncWords,
   proxy_protocol |->
      {w \in {"off", "v1", "v2"} :
         /\ Has("PROXY_PROTOCOL")
         /\ w = "v1" => Has("PROXY_PROTOCOL_V1")
         /\ w = "v2" => Has("PROXY_PROTOCOL_V2")},
   proxy_protocol_tlv |-> IF Has("PROXY_PROTOCOL") THEN {"off"} ELSE {},
   udp_idle_timeout |-> IF Has("UDP") THEN integer(1, 86400) ELSE {},
   udp_reply_timeout |-> IF Has("UDP") THEN integer(1, 86400) ELSE {},
   udp_max_sessions |-> IF Has("UDP") THEN integer(1, MAX_UDP_SESSIONS) ELSE {},
   udp_max_datagram_size |->
      IF Has("UDP") THEN integer(512, MAX_UDP_DATAGRAM_SIZE) ELSE {}]

UdpKeys == {"udp_idle_timeout", "udp_reply_timeout", "udp_max_sessions",
            "udp_max_datagram_size"}

\* The keys of an authorized client, allow_remote_port apart.
ClientKeys ==
  [public_key |-> Strings, allow_bind_addr |-> Strings,
   max_services |-> integer(1, MAX_SERVICES), max_streams |-> integer(1, MAX_STREAMS)]

\* Neither unknown, nor unavailable, nor invalid.
Takes(keys, k, v) == k \in DOMAIN keys /\ v \in keys[k]

\* The value a field gets from the word of its line.
Value(k, v) ==
  IF k \in {"default_data_encryption", "data_encryption"} THEN enc(v) ELSE v

\* parse_range: the numbers before and after the '-', or one number twice.
parse_range(r) == r \in PortNumbers \X PortNumbers /\ r[1] <= r[2]

\* key_seen: refuses a key it has, and any key once the table is full.
key_seen(seen, capacity, k) == k \in seen \/ Cardinality(seen) = capacity

CommonSeen == 40
SectionSeen == 16
ClientSeen == 4

-----------------------------------------------------------------------------
(***************************************************************************)
(* Defaults.                                                               *)
(***************************************************************************)
Wildcard == IF Has("IPV6") THEN "::" ELSE "0.0.0.0"

defaults ==
  [bind_addr |-> Wildcard, server_addr |-> "", client_id |-> "",
   identity_private_key |-> "", server_public_key |-> "",
   authorized_clients_file |-> "", log_file |-> "", mode |-> "none",
   bind_port |-> 7000, server_port |-> 7000,
   allowed_ciphers |-> Cipher, preferred_cipher |-> Cipher,
   default_data_encryption |->
      IF Has("DATA_ENCRYPTION") THEN "required" ELSE "disabled",
   log_level |-> DEFAULT_LOG_LEVEL,
   heartbeat_interval |-> 20, heartbeat_timeout |-> 60,
   handshake_timeout |-> 10, connect_timeout |-> 5,
   reconnect_initial_delay |-> 1, reconnect_max_delay |-> 30,
   reconnect_jitter_percent |-> 20, pool_count |-> DEFAULT_POOL_COUNT,
   max_clients |-> MAX_CLIENTS, max_services_per_client |-> MAX_SERVICES,
   max_streams_per_client |-> DEFAULT_MAX_STREAMS,
   max_pending_streams |-> DEFAULT_MAX_PENDING_STREAMS,
   log_rotate_days |-> 7, log_max_size_kib |-> 1024]

\* A service as its header leaves it; it takes the default encryption that
\* [common] has at this line.
NewService(id, c) ==
  [id |-> id, type |-> "none", remote_addr |-> Wildcard,
   local_addr |-> IF Has("IPV4") THEN "127.0.0.1" ELSE "::1",
   remote_port |-> 0, local_port |-> 0,
   data_encryption |-> c.default_data_encryption,
   proxy_protocol |-> "off", udp_options_seen |-> FALSE,
   udp_idle_timeout |-> IF Has("UDP") THEN 60 ELSE 0,
   udp_reply_timeout |-> IF Has("UDP") THEN 5 ELSE 0,
   udp_max_sessions |-> IF Has("UDP") THEN MAX_UDP_SESSIONS ELSE 0,
   udp_max_datagram_size |-> IF Has("UDP") THEN MAX_UDP_DATAGRAM_SIZE ELSE 0]

NewClient(id, c) ==
  [id |-> id, public_key |-> "", allow_bind_addr |-> Wildcard,
   max_services |-> c.max_services_per_client,
   max_streams |-> c.max_streams_per_client, ports |-> <<>>]

Init ==
  /\ phase = "config"
  /\ text = <<>> /\ clientsText = <<>>
  /\ input = [applet |-> "none", env_log |-> {}, env_pool |-> {},
              option_log |-> {}, usable |-> {}, long_path |-> FALSE,
              unreadable |-> FALSE]
  /\ common = defaults
  /\ services = <<>> /\ clients = <<>>
  /\ section = "" /\ common_seen = {} /\ section_seen = {}

-----------------------------------------------------------------------------
(***************************************************************************)
(* ct_config_load: one action per outcome of a line.                       *)
(***************************************************************************)
ReadLine(l) ==
  /\ phase = "config"
  /\ text' = Append(text, l)
  /\ UNCHANGED <<clientsText, input, clients>>

Refuse(l) ==
  /\ ReadLine(l)
  /\ phase' = "refused"
  /\ UNCHANGED <<common, services, section, common_seen, section_seen>>

\* The line cannot be split, its header is too long, one service too many is
\* opened, or a key stands outside of a named section.
LineRefused(l) ==
  /\ \/ l.kind = "bad"
     \/ /\ l.kind = "section"
        /\ \/ l.name \notin Strings
           \/ l.name # "common" /\ Len(services) = MAX_SERVICES
     \/ l.kind = "key" /\ section = ""
  /\ Refuse(l)

\* Faulty: svc is not reset, and the keys go on to the last service.
CommonSectionKeepsService(l) ==
  /\ l.kind = "section" /\ l.name = "common"
  /\ ReadLine(l)
  /\ section' = IF services = <<>> THEN "common" ELSE section
  /\ section_seen' = {}
  /\ UNCHANGED <<phase, common, services, common_seen>>

CommonSection(l) ==
  /\ l.kind = "section" /\ l.name = "common"
  /\ ReadLine(l)
  /\ section' = l.name
  /\ section_seen' = {}
  /\ UNCHANGED <<phase, common, services, common_seen>>

\* Faulty: the seen keys of the section before are kept.
ServiceSectionKeepsSeen(l) ==
  /\ l.kind = "section" /\ l.name \in Strings \ {"common"}
  /\ Len(services) < MAX_SERVICES
  /\ ReadLine(l)
  /\ section' = l.name
  /\ services' = Append(services, NewService(l.name, common))
  /\ UNCHANGED <<phase, common, common_seen, section_seen>>

ServiceSection(l) ==
  /\ l.kind = "section" /\ l.name \in Strings \ {"common"}
  /\ Len(services) < MAX_SERVICES
  /\ ReadLine(l)
  /\ section' = l.name
  /\ section_seen' = {}
  /\ services' = Append(services, NewService(l.name, common))
  /\ UNCHANGED <<phase, common, common_seen>>

KeyRefused(l) ==
  /\ l.kind = "key" /\ section # ""
  /\ IF section = "common"
     THEN \/ key_seen(common_seen, CommonSeen, l.key)
          \/ ~Takes(CommonKeys, l.key, l.value)
     ELSE \/ key_seen(section_seen, SectionSeen, l.key)
          \/ ~Takes(ServiceKeys, l.key, l.value)
  /\ Refuse(l)

CommonKey(l) ==
  /\ l.kind = "key" /\ section = "common"
  /\ ~key_seen(common_seen, CommonSeen, l.key)
  /\ Takes(CommonKeys, l.key, l.value)
  /\ ReadLine(l)
  /\ common_seen' = common_seen \cup {l.key}
  /\ common' = [k \in DOMAIN common |->
                  IF k = l.key THEN Value(k, l.value) ELSE common[k]]
  /\ UNCHANGED <<phase, services, section, section_seen>>

ServiceKey(l) ==
  /\ l.kind = "key" /\ section \notin {"", "common"}
  /\ ~key_seen(section_seen, SectionSeen, l.key)
  /\ Takes(ServiceKeys, l.key, l.value)
  /\ ReadLine(l)
  /\ section_seen' = section_seen \cup {l.key}
  /\ services' = [services EXCEPT ![Len(services)] =
       [k \in DOMAIN @ |->
          IF k = l.key THEN Value(k, l.value)
          ELSE IF k = "udp_options_seen" THEN @[k] \/ l.key \in UdpKeys
          ELSE @[k]]]
  /\ UNCHANGED <<phase, common, section, common_seen>>

-----------------------------------------------------------------------------
(***************************************************************************)
(* The end of the configuration.                                           *)
(***************************************************************************)
Override(old, new) == IF new = {} THEN old ELSE CHOOSE v \in new : TRUE

\* The environment and the default log file.
EnvironmentOK(in) ==
  Has("ENV_OVERRIDE") => /\ in.env_log \subseteq LogLevels
                         /\ in.env_pool \subseteq 0..MAX_STREAMS

LogFileFits(c, in) == c.log_file = "" => ~in.long_path

set_default_log_file(c) ==
  IF c.log_file # "" THEN c.log_file
  ELSE CASE c.mode = "client" -> "ctunnel-client.log"
         [] c.mode = "server" -> "ctunnel-server.log"
         [] OTHER -> "ctunnel.log"

Completed(c, in) ==
  LET env == Has("ENV_OVERRIDE") /\ EnvironmentOK(in)
  IN  [c EXCEPT !.log_level = IF env THEN Override(@, in.env_log) ELSE @,
                !.pool_count = IF env THEN Override(@, in.env_pool) ELSE @,
                !.log_file = set_default_log_file(c)]

address_family_unavailable(a) ==
  \/ ~Has("IPV4") /\ a \in Numeric4
  \/ ~Has("IPV6") /\ a \in Numeric6

ServiceValid(s) ==
  /\ ~address_family_unavailable(s.remote_addr)
  /\ ~address_family_unavailable(s.local_addr)
  /\ s.type \in {"tcp", "udp"}
  /\ s.type = "udp" => Has("UDP") /\ s.proxy_protocol = "off"
  /\ s.type = "tcp" => ~s.udp_options_seen
  /\ ~Has("DATA_ENCRYPTION") => s.data_encryption = "disabled"
  /\ s.remote_port # 0 /\ s.local_port # 0

ct_config_validate(c, svcs) ==
  /\ c.mode # "none"
  /\ Has(IF c.mode = "server" THEN "SERVER" ELSE "CLIENT")
  /\ c.identity_private_key # ""
  /\ c.preferred_cipher = c.allowed_ciphers
  /\ ~address_family_unavailable(c.bind_addr)
  /\ c.mode = "client" => ~address_family_unavailable(c.server_addr)
  /\ c.heartbeat_timeout > c.heartbeat_interval
  /\ c.max_clients <= MAX_CLIENTS
  /\ c.max_services_per_client <= MAX_SERVICES
  /\ c.max_streams_per_client <= MAX_STREAMS
  /\ c.max_pending_streams <= MAX_PENDING_STREAMS
  /\ ~Has("WORK_POOL") => c.pool_count = 0
  /\ ~Has("DATA_ENCRYPTION") => c.default_data_encryption = "disabled"
  /\ IF c.mode = "server"
     THEN c.authorized_clients_file # "" /\ svcs = <<>>
     ELSE /\ "" \notin {c.server_addr, c.client_id, c.server_public_key}
          /\ \A i \in DOMAIN svcs :
               /\ ServiceValid(svcs[i])
               /\ \A j \in 1..(i - 1) : svcs[j].id # svcs[i].id

ct_config_validate_security_files(c, in, cls) ==
  /\ c.identity_private_key \in in.usable
  /\ IF c.mode = "client"
     THEN c.server_public_key \in in.usable
     ELSE /\ c.authorized_clients_file \in in.usable
          /\ \A i \in DOMAIN cls : cls[i].public_key \in in.usable

\* Faulty: validates what the file says, before the environment replaces it.
ConfigGoodAsRead(in) ==
  /\ EnvironmentOK(in)
  /\ LogFileFits(common, in)
  /\ ct_config_validate(common, services)
  /\ in.applet # "none" => common.mode = in.applet
  /\ ct_config_validate_security_files(common, in, <<>>)

\* ct_config_load's tail, then ct_applet_load_config up to the second file.
ConfigGood(in) ==
  LET c == Completed(common, in)
  IN  /\ EnvironmentOK(in)
      /\ LogFileFits(common, in)
      /\ ct_config_validate(c, services)
      /\ in.applet # "none" => c.mode = in.applet
      /\ ct_config_validate_security_files(c, in, <<>>)

ConfigEnd(in) ==
  /\ phase = "config"
  /\ input' = in
  /\ common' = Completed(common, in)
  /\ phase' = IF ~ConfigGood(in) THEN "invalid"
              ELSE IF common'.mode = "server" THEN "clients" ELSE "override"
  /\ section_seen' = {}
  /\ UNCHANGED <<text, clientsText, services, section, common_seen, clients>>

-----------------------------------------------------------------------------
(***************************************************************************)
(* ct_authorized_load.                                                     *)
(***************************************************************************)
ReadClientsLine(l) ==
  /\ phase = "clients"
  /\ clientsText' = Append(clientsText, l)
  /\ UNCHANGED <<text, input, common, services, section, common_seen>>

Duplicate(id) == \E i \in DOMAIN clients : clients[i].id = id

\* A broken line, a header past the limit, of a client already listed or too
\* long, a key before the first header, or a key or value it does not take.
ClientsLineRefused(l) ==
  /\ \/ l.kind = "bad"
     \/ /\ l.kind = "section"
        /\ \/ Len(clients) = MAX_CLIENTS
           \/ Duplicate(l.name)
           \/ l.name \notin Strings
     \/ l.kind = "key" /\ clients = <<>>
     \/ /\ l.kind = "key" /\ clients # <<>>
        /\ IF l.key = "allow_remote_port"
           THEN \/ Len(clients[Len(clients)].ports) = MAX_PORT_RANGES
                \/ ~parse_range(l.value)
           ELSE \/ key_seen(section_seen, ClientSeen, l.key)
                \/ ~Takes(ClientKeys, l.key, l.value)
  /\ ReadClientsLine(l)
  /\ phase' = "refused"
  /\ UNCHANGED <<clients, section_seen>>

ClientSection(l) ==
  /\ l.kind = "section" /\ l.name \in Strings
  /\ Len(clients) < MAX_CLIENTS /\ ~Duplicate(l.name)
  /\ ReadClientsLine(l)
  /\ clients' = Append(clients, NewClient(l.name, common))
  /\ section_seen' = {}
  /\ UNCHANGED phase

ClientKey(l) ==
  /\ l.kind = "key" /\ clients # <<>> /\ l.key # "allow_remote_port"
  /\ ~key_seen(section_seen, ClientSeen, l.key)
  /\ Takes(ClientKeys, l.key, l.value)
  /\ ReadClientsLine(l)
  /\ clients' = [clients EXCEPT ![Len(clients)][l.key] = l.value]
  /\ section_seen' = section_seen \cup {l.key}
  /\ UNCHANGED phase

\* Faulty: every range is stored in the first slot.
ClientPortsOverwrite(l) ==
  /\ l.kind = "key" /\ clients # <<>> /\ l.key = "allow_remote_port"
  /\ parse_range(l.value)
  /\ ReadClientsLine(l)
  /\ clients' = [clients EXCEPT ![Len(clients)].ports = <<l.value>>]
  /\ UNCHANGED <<phase, section_seen>>

ClientPorts(l) ==
  /\ l.kind = "key" /\ clients # <<>> /\ l.key = "allow_remote_port"
  /\ Len(clients[Len(clients)].ports) < MAX_PORT_RANGES
  /\ parse_range(l.value)
  /\ ReadClientsLine(l)
  /\ clients' = [clients EXCEPT ![Len(clients)].ports = Append(@, l.value)]
  /\ UNCHANGED <<phase, section_seen>>

ClientValid(c) ==
  /\ ~address_family_unavailable(c.allow_bind_addr)
  /\ c.public_key # "" /\ c.ports # <<>>

\* Every client is complete, and then the key files are checked once more.  A
\* read error ends the file as well: ct_authorized_load does not ask ferror.
ClientsEnd ==
  /\ phase = "clients"
  /\ phase' = IF /\ \A i \in DOMAIN clients : ClientValid(clients[i])
                 /\ ct_config_validate_security_files(common, input, clients)
              THEN "override" ELSE "invalid"
  /\ UNCHANGED <<text, clientsText, input, common, services, section,
                 common_seen, section_seen, clients>>

\* --log-level, which the build knows or not.
CommandLine ==
  /\ phase = "override"
  /\ IF input.option_log \subseteq LogLevels
     THEN /\ phase' = "accepted"
          /\ common' = [common EXCEPT !.log_level = Override(@, input.option_log)]
     ELSE phase' = "invalid" /\ UNCHANGED common
  /\ UNCHANGED <<text, clientsText, input, services, section, common_seen,
                 section_seen, clients>>

\* open_policy_file refuses one of the files, or reading the configuration
\* fails: ct_config_load asks ferror.
Unreadable ==
  /\ phase = "config" \/ (phase = "clients" /\ clientsText = <<>>)
  /\ phase' = "refused"
  /\ input' = [input EXCEPT !.unreadable = TRUE]
  /\ UNCHANGED <<text, clientsText, common, services, section, common_seen,
                 section_seen, clients>>

ConfigLine(l) ==
  \/ LineRefused(l) \/ CommonSection(l) \/ ServiceSection(l)
  \/ KeyRefused(l) \/ CommonKey(l) \/ ServiceKey(l)

ClientsLine(l) ==
  \/ ClientsLineRefused(l) \/ ClientSection(l) \/ ClientKey(l) \/ ClientPorts(l)

Next ==
  \/ \E l \in ConfigMayHave(text) : ConfigLine(l)
  \/ \E in \in Inputs : ConfigEnd(in)
  \/ \E l \in ClientsMayHave(clientsText) : ClientsLine(l)
  \/ ClientsEnd
  \/ CommandLine
  \/ Unreadable

Spec == Init /\ [][Next]_vars

-----------------------------------------------------------------------------
(***************************************************************************)
(* What the server asks of the result.                                     *)
(***************************************************************************)
\* ct_authorized_find: the first client of that name, if there is one.
ct_authorized_find(id) ==
  LET found == {i \in DOMAIN clients : clients[i].id = id}
  IN  IF found = {} THEN {} ELSE {clients[Min(found)]}

ct_authorized_port(a, addr, p) ==
  /\ a.allow_bind_addr \in {"*", addr}
  /\ \E i \in DOMAIN a.ports : p >= a.ports[i][1] /\ p <= a.ports[i][2]

-----------------------------------------------------------------------------
(***************************************************************************)
(* Reading a file as a whole, without the parser's state.                  *)
(***************************************************************************)
\* The line of the header that line i stands under, 0 if there is none.
Header(t, i) == Max({0} \cup {j \in 1..i : t[j].kind = "section"})

Headers(t) == {j \in DOMAIN t : t[j].kind = "section"}
CommonHeaders(t) == {j \in Headers(t) : t[j].name = "common"}
OtherHeaders(t) == {j \in Headers(t) : t[j].name # "common"}

\* The place of the header at line p among the headers S.
Rank(S, p) == Cardinality({q \in S : q <= p})

\* The lines of key k under one of the headers.
Under(t, headers, k) ==
  {i \in DOMAIN t : t[i].kind = "key" /\ t[i].key = k /\ Header(t, i) \in headers}

\* What the file says of k: its line's value, or the default.
Read(t, headers, k, default) ==
  LET lines == Under(t, headers, k)
  IN  IF lines = {} THEN default ELSE Value(k, t[Max(lines)].value)

\* What the other modules assume of the configuration they run with, where it
\* takes more than the range of one key: the limits are positive and within
\* the compiled arrays, a session may miss a heartbeat, a client knows whom to
\* call, its services are distinct, complete and of a type the build relays,
\* and no default, override or later section undoes any of it.  The pool has
\* a size that its key takes, or the compiled default (see PoolWithinLimit).
\* Checked of the final configuration, after ct_applet_load_config has returned.
Sound ==
  phase = "accepted" =>
    /\ common.max_clients \in 1..MAX_CLIENTS
    /\ common.max_services_per_client \in 1..MAX_SERVICES
    /\ common.max_streams_per_client \in 1..MAX_STREAMS
    /\ common.max_pending_streams \in 1..MAX_PENDING_STREAMS
    /\ common.pool_count \in CommonKeys.pool_count \cup {DEFAULT_POOL_COUNT}
    /\ common.heartbeat_timeout > common.heartbeat_interval
    /\ common.log_level \in LogLevels /\ common.log_file # ""
    /\ common.mode = "server" => services = <<>>
    /\ common.mode = "client" => clients = <<>> /\ common.client_id # ""
    /\ \A i \in DOMAIN services :
         /\ services[i].type \in {"tcp", "udp"}
         /\ {services[i].remote_port, services[i].local_port} \subseteq PortNumbers
         /\ \A j \in DOMAIN services :
              services[i].id = services[j].id => i = j
    /\ \A i \in DOMAIN clients :
         /\ clients[i].public_key \in input.usable
         /\ clients[i].max_services \in 1..MAX_SERVICES
         /\ clients[i].max_streams \in 1..MAX_STREAMS

\* No resource has more than its compiled limit, as docs/configuration.md:5 and
\* docs/build-configuration.md:149 have it: the pool is not above MAX_STREAMS.
\* The defaults have DEFAULT_POOL_COUNT as it is, and ct_config_validate does not
\* look at it in a build with the work pool.
PoolWithinLimit == phase = "accepted" => common.pool_count \in CommonKeys.pool_count

\* default_data_encryption stands below line p.
DefaultBelow(t, p) ==
  \E i \in Under(t, CommonHeaders(t), "default_data_encryption") : i > p

\* Service s has the values of the section at line p and of no other.  Without
\* data_encryption it has the default of [common], unless that stands below.
ServiceWritten(t, p, s) ==
  LET default == Read(t, CommonHeaders(t), "default_data_encryption",
                      defaults.default_data_encryption)
      fresh == NewService(t[p].name, [default_data_encryption |-> default])
  IN  /\ s.id = t[p].name
      /\ s.udp_options_seen = (\E k \in UdpKeys : Under(t, {p}, k) # {})
      /\ \A k \in DOMAIN s \ {"id", "udp_options_seen"} :
           /\ \/ s[k] = Read(t, {p}, k, fresh[k])
              \/ k = "data_encryption" /\ Under(t, {p}, k) = {} /\ DefaultBelow(t, p)
           /\ Cardinality(Under(t, {p}, k)) <= 1

Env(new) == IF Has("ENV_OVERRIDE") THEN new ELSE {}

\* An accepted configuration is the one written: every setting of [common] has
\* the value of its only line in any [common] section, wherever the file
\* returns to it, else its default, unless the environment or the command line
\* replaced it; every service has the values of its own section and of no
\* other, in the file's order.  A service without data_encryption has the
\* default of [common]; for a default written below it, see DefaultApplies.
AsWritten ==
  phase = "accepted" =>
    LET C == CommonHeaders(text)
        S == OtherHeaders(text)
    IN  /\ \A k \in DOMAIN common \ {"log_level", "pool_count", "log_file"} :
             common[k] = Read(text, C, k, defaults[k])
        /\ common.pool_count =
             Override(Read(text, C, "pool_count", DEFAULT_POOL_COUNT),
                      Env(input.env_pool))
        /\ common.log_level =
             Override(Override(Read(text, C, "log_level", DEFAULT_LOG_LEVEL),
                               Env(input.env_log)), input.option_log)
        /\ \A k \in DOMAIN CommonKeys : Cardinality(Under(text, C, k)) <= 1
        /\ Len(services) = Cardinality(S)
        /\ \A p \in S : ServiceWritten(text, p, services[Rank(S, p)])

\* default_data_encryption is the default of the client's service sections, as
\* docs/configuration.md:19 has it, wherever it is written.  The header of a
\* section takes the one read so far (config.c:424), and one written below it
\* changes nothing.
DefaultApplies ==
  phase = "accepted" =>
    LET S == OtherHeaders(text)
    IN  \A p \in S : Under(text, {p}, "data_encryption") = {} =>
          services[Rank(S, p)].data_encryption = common.default_data_encryption

\* Line i is a key that its section, or any section [common], has already.
Same(t, i, j) == \/ Header(t, i) = Header(t, j)
                 \/ {Header(t, i), Header(t, j)} \subseteq CommonHeaders(t)
Twice(t, i) == \E j \in 1..(i - 1) : /\ t[j].kind = "key"
                                     /\ t[j].key = t[i].key
                                     /\ Same(t, i, j)

\* Line i is broken, a header that is too long, or a key before any header.
Wrong(t, i) == \/ t[i].kind = "bad"
               \/ t[i].kind = "section" /\ t[i].name \notin Strings
               \/ t[i].kind = "key" /\ Header(t, i) = 0

WrongInConfig(t, i) ==
  \/ Wrong(t, i)
  \/ /\ t[i].kind = "key"
     /\ \/ t[Header(t, i)].name = ""
        \/ Twice(t, i)
        \/ ~Takes(IF Header(t, i) \in CommonHeaders(t) THEN CommonKeys
                  ELSE ServiceKeys, t[i].key, t[i].value)

WrongInClients(t, i) ==
  \/ Wrong(t, i)
  \/ t[i].kind = "section" /\ \E j \in Headers(t) : j < i /\ t[j].name = t[i].name
  \/ /\ t[i].kind = "key"
     /\ IF t[i].key = "allow_remote_port"
        THEN ~parse_range(t[i].value)
        ELSE Twice(t, i) \/ ~Takes(ClientKeys, t[i].key, t[i].value)

\* A line is refused for a reason of its own: it is broken or too long, a key
\* outside of a named section, written twice, unknown or out of range, or one
\* section or port range too many.  The parser's tables of seen keys, their
\* capacities and their resets never refuse anything else, so that what one
\* section says cannot make another one fail.
RefusedForCause ==
  phase = "refused" =>
    \/ input.unreadable
    \/ \E i \in DOMAIN text : WrongInConfig(text, i)
    \/ Cardinality(OtherHeaders(text)) > MAX_SERVICES
    \/ \E i \in DOMAIN clientsText : WrongInClients(clientsText, i)
    \/ Cardinality(Headers(clientsText)) > MAX_CLIENTS
    \/ \E p \in Headers(clientsText) :
         Cardinality(Under(clientsText, {p}, "allow_remote_port")) > MAX_PORT_RANGES

\* The ranges listed under the header at line p.
Ranges(t, p) == {t[i].value : i \in Under(t, {p}, "allow_remote_port")}

\* Of these ports, a client may listen on those the administrator listed for it.
AuthorizedOn(ports) ==
  phase = "accepted" /\ common.mode = "server" =>
    \A id \in Strings, addr \in Strings, p \in ports :
      (\E a \in ct_authorized_find(id) : ct_authorized_port(a, addr, p))
        <=> \E h \in Headers(clientsText) :
              /\ clientsText[h].name = id
              /\ Read(clientsText, {h}, "allow_bind_addr", Wildcard) \in {"*", addr}
              /\ \E r \in Ranges(clientsText, h) : p \in r[1]..r[2]

\* What the server lets a client listen on is what the administrator listed
\* for that client: an address and a port are allowed exactly if the section
\* of the client's own name has a range with the port, and allows the address
\* or every address; a client without a section may listen nowhere.  The ports
\* asked about are those at the edges of all the ranges.
AuthorizedAsListed ==
  AuthorizedOn(UNION {{r[1] - 1, r[1], r[2], r[2] + 1} :
                        r \in UNION {Ranges(clientsText, h) :
                                       h \in Headers(clientsText)}})
=============================================================================
