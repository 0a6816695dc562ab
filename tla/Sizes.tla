------------------------------- MODULE Sizes -------------------------------
(* The lengths of the format, as cmd/dump.c and tools/gen both spell them.  *)
EXTENDS Naturals

ADDRLEN == 16
KEYHALF == 32
KEYSIZE == 64
NAMEHASHLEN == 10
RANDHASHLEN == 10
SIGLEN == 64
RATCHETLEN == 32
IVLEN == 16
MACLEN == 32
TOKEN_OVERHEAD == IVLEN + MACLEN
DERIVEDLEN == 64
HASHLEN == 32
MAPHASHLEN == 4
ENVELOPELEN == 6
ECPUBSIZE == 64
SIGNALLEN == 3
MAX_HOPS == 128
BLOCK == 16             \* an AES block, and the longest padding

(* The contexts that have a name.  Any other byte is printed as hex.        *)
ContextName ==
  [c \in {0, 1, 2, 3, 4, 5, 6, 7, 9, 10, 11, 14} \union 250..255 |->
     CASE c = 0  -> "none"            [] c = 1  -> "resource"
       [] c = 2  -> "resource_adv"    [] c = 3  -> "resource_req"
       [] c = 4  -> "resource_hmu"    [] c = 5  -> "resource_prf"
       [] c = 6  -> "resource_icl"    [] c = 7  -> "resource_rcl"
       [] c = 9  -> "request"         [] c = 10 -> "response"
       [] c = 11 -> "path_response"   [] c = 14 -> "channel"
       [] c = 250 -> "keepalive"      [] c = 251 -> "link_identify"
       [] c = 252 -> "link_close"     [] c = 253 -> "link_proof"
       [] c = 254 -> "link_rtt"       [] c = 255 -> "link_request_proof"]

(* The bits of the flags byte.  Bit 7 is no field: it belongs to the frame. *)
Bits(flags, low, width) == (flags \div 2^low) % 2^width
=============================================================================
