------------------------------ MODULE DhcpNodes -------------------------------
(***************************************************************************)
(* What dpservice answers as the DHCP and DHCPv6 server of the virtual     *)
(* machines (nodes/dhcp_node.c, nodes/dhcpv6_node.c).  A DHCP request is   *)
(* its options, byte by byte as the parser walks them; the strings that    *)
(* ask for a network boot are abstracted to one byte.  A DHCPv6 request is *)
(* its message type and its options with their lengths.                    *)
(***************************************************************************)
EXTENDS Integers, Sequences, FiniteSets, SequencesExt

CONSTANTS DhVf,       \* the VFs
          DhConfig,   \* interface configurations: [v4, v6, pxe6 : BOOLEAN]
          DhOptions,  \* DHCP requests: sequences of options [code, data]
          Dh6Request  \* DHCPv6 requests: [type, options]

ASSUME DhAssumption == DhConfig \subseteq [v4 : BOOLEAN, v6 : BOOLEAN, pxe6 : BOOLEAN]

VARIABLES cfg,        \* the configuration of the interface on each VF
          pxe_mode,   \* the static variable of dhcp_node.c
          pxe_asked,  \* some DHCP client has asked for a network boot
          dh_reply    \* the latest answer

dh_vars == <<cfg, pxe_mode, pxe_asked, dh_reply>>

OPT_PAD == 0
OPT_MESSAGE_TYPE == 53
OPT_VENDOR_CLASS_ID == 60
OPT_USER_CLASS == 77
OPT_END == 255
DHCPDISCOVER == 1
DHCPREQUEST  == 3
IPXE == 105          \* "iPXE"
PXECLIENT == 80      \* "PXEClient:Arch:00007"

NoReply == [kind |-> "none"]

DhInit ==
  /\ cfg \in [DhVf -> DhConfig]
  /\ pxe_mode = "none" /\ pxe_asked = FALSE
  /\ dh_reply = NoReply

-------------------------------------------------------------------------------
(* DHCP *)

\* The bytes of an option: padding and end are alone, the others have a length.
Bytes(o) == IF o.code \in {OPT_PAD, OPT_END} THEN <<o.code>> ELSE <<o.code, Len(o.data)>> \o o.data

Encode(options) == FoldLeft(LAMBDA bytes, o : bytes \o Bytes(o), <<>>, options)

\* Mutant: the vendor class is not looked at.
ParseOptionNoVendor(code, data, found) ==
  CASE code = OPT_MESSAGE_TYPE                  -> [found EXCEPT !.type = data[1]]
    [] code = OPT_USER_CLASS /\ data = <<IPXE>> -> [found EXCEPT !.pxe = "http"]
    [] OTHER                                    -> found

\* What one option does to the result of parse_options().
ParseOption(code, data, found) ==
  CASE code = OPT_MESSAGE_TYPE                              -> [found EXCEPT !.type = data[1]]
    [] code = OPT_USER_CLASS /\ data = <<IPXE>>             -> [found EXCEPT !.pxe = "http"]
    [] code = OPT_VENDOR_CLASS_ID /\ PXECLIENT \in ToSet(data) -> [found EXCEPT !.pxe = "tftp"]
    [] OTHER                                                -> found

(* parse_options() from byte i on.  The step of the loop adds op_len, which *)
(* a padding byte leaves as the option before it has set it.                *)
RECURSIVE parse_from(_, _, _, _)
parse_from(bytes, i, op_len, found) ==
  IF i > Len(bytes) \/ bytes[i] = OPT_END THEN found
  ELSE IF bytes[i] = OPT_PAD THEN parse_from(bytes, i + 1 + op_len, op_len, found)
  ELSE IF i + 1 > Len(bytes) \/ i + 1 + bytes[i + 1] > Len(bytes) THEN [found EXCEPT !.malformed = TRUE]
  ELSE parse_from(bytes, i + 2 + bytes[i + 1], bytes[i + 1],
                  ParseOption(bytes[i], SubSeq(bytes, i + 2, i + 1 + bytes[i + 1]), found))

\* Without a message type the result is an error as well; pxe_mode starts from its last value.
parse_options(bytes) ==
  parse_from(bytes, 1, 0, [type |-> 0, pxe |-> pxe_mode, malformed |-> FALSE])

(* get_next_index() of dhcp_node: the answer offers the address of the      *)
(* interface and, in a network boot, a boot file on its boot server, whose  *)
(* address is asserted to be IPv4.                                          *)
DhcpAnswer(v, options, found) ==
  IF found.malformed \/ found.type \notin {DHCPDISCOVER, DHCPREQUEST} THEN NoReply
  ELSE IF found.pxe # "none" /\ cfg[v].pxe6 THEN [kind |-> "assert", v6 |-> FALSE]
  ELSE [kind |-> "dhcp", asked |-> options, boot |-> found.pxe,
        type |-> IF found.type = DHCPDISCOVER THEN "offer" ELSE "ack"]

Asks(options, code, byte) ==
  \E i \in DOMAIN options : options[i].code = code /\ byte \in ToSet(options[i].data)
BootAsked(options) == Asks(options, OPT_USER_CLASS, IPXE) \/ Asks(options, OPT_VENDOR_CLASS_ID, PXECLIENT)

dhcp_node(v) ==
  \E options \in DhOptions :
    LET found == parse_options(Encode(options)) IN
    /\ dh_reply = NoReply /\ cfg[v].v4
    /\ pxe_mode' = found.pxe
    /\ pxe_asked' = (pxe_asked \/ BootAsked(options))
    /\ dh_reply' = DhcpAnswer(v, options, found)
    /\ UNCHANGED cfg

-------------------------------------------------------------------------------
(* DHCPv6 *)

Size6(options) == FoldLeft(LAMBDA n, o : n + 4 + o.len, 0, options)

(* The options the loop of parse_options() looks at: it goes on while more  *)
(* than an option header is left.                                           *)
Seen6(options) ==
  {options[i].code : i \in {i \in DOMAIN options : Size6(SubSeq(options, 1, i - 1)) + 4 < Size6(options)}}

(* generate_reply_options(): the client's identifier, association and rapid *)
(* commit are repeated, a boot file is added when asked for; the server's   *)
(* identifier and the name servers are always there.                        *)
ReplyOptions(options) ==
  (Seen6(options) \cap {"client_id", "ia_na", "rapid_commit", "boot"}) \cup {"server_id", "dns"}

Dhcpv6Answer(v, r) ==
  IF ~cfg[v].v6
  THEN IF r.type \in {"solicit", "request"}
       THEN [kind |-> "dhcpv6", type |-> "reply", options |-> {"no_addrs"}, asked |-> r]
       ELSE NoReply
  ELSE CASE r.type \in {"solicit", "request", "release"} ->
              IF "boot" \in Seen6(r.options) /\ ~cfg[v].pxe6
              THEN [kind |-> "assert", v6 |-> TRUE]
              ELSE [kind |-> "dhcpv6", type |-> IF r.type = "solicit" THEN "advertise" ELSE "reply",
                    options |-> ReplyOptions(r.options), asked |-> r]
         [] r.type = "confirm" -> [kind |-> "dhcpv6", type |-> "reply", options |-> {}, asked |-> r]
         [] OTHER -> NoReply

dhcpv6_node(v) ==
  \E r \in Dh6Request :
    /\ dh_reply = NoReply
    /\ dh_reply' = Dhcpv6Answer(v, r)
    /\ UNCHANGED <<cfg, pxe_mode, pxe_asked>>

\* The reply is on the wire and the next request may come.
Transmitted ==
  /\ dh_reply # NoReply /\ dh_reply' = NoReply
  /\ UNCHANGED <<cfg, pxe_mode, pxe_asked>>

DhNext == Transmitted \/ \E v \in DhVf : dhcp_node(v) \/ dhcpv6_node(v)

DhSpec == DhInit /\ [][DhNext]_dh_vars

-------------------------------------------------------------------------------
(* The options of a request up to its end, and none of them padding: what   *)
(* the padding does to the options behind it is described in the README.    *)
Unpadded(options) == \A i \in DOMAIN options : options[i].code # OPT_PAD

(* A DHCP client that asks for a network boot is sent a boot file, by       *)
(* whichever option it asks; one that does not is sent one only after some  *)
(* client, on whatever VF, has asked: dhcp_node.c keeps pxe_mode in a       *)
(* static variable.                                                         *)
BootFilesFollowRequests ==
  /\ dh_reply.kind = "dhcp" =>
       /\ BootAsked(dh_reply.asked) /\ Unpadded(dh_reply.asked) => dh_reply.boot # "none"
       /\ dh_reply.boot # "none" => pxe_asked
  /\ dh_reply.kind = "assert" => dh_reply.v6 \/ pxe_asked

(* The DHCPv6 reply repeats the options of the client that it must repeat,  *)
(* wherever they stand among the others, and nothing the client has not     *)
(* sent.  The exception is an empty option at the very end, a rapid commit  *)
(* in practice, which the loop of parse_options() does not reach.           *)
RepliesRepeatOptions ==
  dh_reply.kind = "dhcpv6" /\ dh_reply.options # {"no_addrs"} /\ dh_reply.asked.type # "confirm" =>
    LET sent == dh_reply.asked.options IN
    \A code \in {"client_id", "ia_na", "rapid_commit", "boot"} :
      /\ code \in dh_reply.options => \E i \in DOMAIN sent : sent[i].code = code
      /\ \A i \in DOMAIN sent :
           sent[i].code = code /\ (i < Len(sent) \/ sent[i].len > 0) => code \in dh_reply.options
===============================================================================
