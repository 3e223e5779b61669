------------------------------ MODULE Checksum -----------------------------
(***************************************************************************)
(* The TCP checksum of code/kcp/kcp_socket.cc, which the client computes   *)
(* itself for the segments it sends through its raw socket, and the test   *)
(* the server's kernel puts them to.  Headers are sequences of 16-bit      *)
(* words, as ntohs reads them; data is a sequence of bytes.                *)
(***************************************************************************)
EXTENDS Integers, Sequences

Byte == 0..255
Word == 0..65535

(* The sum of a sequence of words, in a uint32_t: 2^16 words fit.          *)
WordSum(words) ==
  LET upto[i \in 0..Len(words)] == IF i = 0 THEN 0 ELSE upto[i - 1] + words[i]
  IN  upto[Len(words)]

(* A zero byte is put behind data of odd length.                           *)
Padded(data) == IF Len(data) % 2 = 1 THEN Append(data, 0) ELSE data

Words(data) ==
  [i \in 1..Len(data) \div 2 |-> 256 * data[2 * i - 1] + data[2 * i]]

(* while (sum >> 16) sum = (sum & 0xffff) + (sum >> 16)                    *)
Folded[sum \in Nat] ==
  IF sum < 65536 THEN sum ELSE Folded[(sum % 65536) + (sum \div 65536)]

(* The pseudo header: both addresses, IPPROTO_TCP and the TCP length.      *)
Pseudo(addresses, length) == addresses \o <<6, 20 + length>>

(* tcp_client_cb's TCP header, 20 bytes: ports, sequence and acknowledge-  *)
(* ment number, doff 5 with PSH and ACK, window, check, urg_ptr.           *)
Header(ports, numbers, check) ==
  ports \o numbers \o <<20504, 8192, check, 0>>

(* calculate_tcp_checksum, for a header whose check is still 0.            *)
TcpChecksum(addresses, header, data) ==
  65535 - Folded[  WordSum(Pseudo(addresses, Len(data))) + WordSum(header)
                 + WordSum(Words(Padded(data)))]

(* A receiver sums what it got, check included, in ones' complement: the   *)
(* segment is sound when all bits of the sum are set.                      *)
Verifies(addresses, header, data) ==
  65535 = Folded[  WordSum(Pseudo(addresses, Len(data))) + WordSum(header)
                 + WordSum(Words(Padded(data)))]
=============================================================================
