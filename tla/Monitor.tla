------------------------------ MODULE Monitor -------------------------------
(***************************************************************************)
(* The frames of a monitoring interface and what read_and_parse_monitor of *)
(* udp-test/monitor.c does with one: the interface shows every frame of    *)
(* the channel, so the function repeats the checks that the hardware and   *)
(* the IPv6 and UDP layers would have made, and hands the payload of the   *)
(* frames that pass them to a callback.                                    *)
(*                                                                         *)
(* A frame is a record.  tap is its radiotap header (Radiotap), magic says *)
(* that the first two bytes are zero; body counts the bytes from the end   *)
(* of the four protocol headers on, with the QoS field and the four bytes  *)
(* of the checksum; announced is the UDP length without its header.        *)
(***************************************************************************)
EXTENDS Radiotap

Footer == 4   \* the 802.11 checksum
QosField == 2

\* READ_CB_MATCH_MULTI has the last word.
Match(st, f) ==
  IF f.da = st.groupMac THEN "multi"
  ELSE IF f.da = st.hw_addr THEN "local"
  ELSE "none"

\* Mutant of IsDestination: only the 802.11 address is looked at.
IsMacDestination(st, f) == Match(st, f) # "none"

\* The 802.11 address and then the IPv6 address: several groups have one
\* 802.11 address.  The addresses the station does not have are zero.
IsDestination(st, f) ==
  CASE Match(st, f) = "multi" -> f.dst = st.multicast
    [] Match(st, f) = "local" -> \E i \in DOMAIN st.ip_addr : f.dst = st.ip_addr[i]
    [] OTHER -> FALSE

\* Length of the payload.
PayloadLen(f) == f.body - (IF f.qos THEN QosField ELSE 0) - Footer

\* Every early return of the function.
Passes(st, f) ==
  /\ f.magic
  /\ f.tap.len <= f.size
  /\ iterator_init(f.tap, f.size)
  /\ f.body >= 0
  /\ f.type = "data"
  /\ f.crc
  /\ f.ethertype = "ipv6" /\ f.version = 6
  /\ IsDestination(st, f)
  /\ f.next = "udp"
  /\ f.dst_port = st.port
  /\ f.announced = PayloadLen(f)

\* "return", "consume", or "abort" at assert(len > 0).
Verdict(st, f) ==
  IF ~Passes(st, f) THEN "return"
  ELSE IF PayloadLen(f) > 0 THEN "consume"
  ELSE "abort"

\* The time stamp of the socket if it gives one, else another clock.
StampOf(f, monotonic) == IF f.stamped THEN f.stamp ELSE monotonic

rate(f) == Kept(f.tap, RATE)
signal(f) == Kept(f.tap, DBM_ANTSIGNAL)

=============================================================================
