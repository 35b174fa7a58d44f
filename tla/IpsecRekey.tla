------------------------------ MODULE IpsecRekey ------------------------------
(***************************************************************************)
(* Rekeying a tunnel that carries traffic, in the order docs/concepts/     *)
(* ipsec.md gives: the peer installs its new ingress association, this     *)
(* side replaces its egress association, the peer deletes its old ingress  *)
(* association.  Generation n uses key n and one of two wire SPIs in turn, *)
(* so that a SPI comes back into use while old frames are still about.     *)
(* Crypto does not fail here; the underlay still repeats, delays, reorders *)
(* and loses frames.                                                       *)
(***************************************************************************)
EXTENDS IpsecTunnel

CONSTANTS
  Rekeyed,   \* the tunnel
  MaxGen     \* bound: generations of key material

ASSUME RekeyAssumption ==
  /\ Rekeyed \in Tunnel
  /\ MaxGen \in Nat
  /\ KeyMaterial = 0 .. MaxGen /\ Spi = {1, 2}
  /\ \A k \in KeyMaterial : KeyTunnel[k] = Rekeyed
  /\ \A r \in Route : TunnelOf(r[1], r[2]) = Rekeyed /\ VniOf[r[2]] = Rekeyed.vni
  /\ 0 \in Window
  /\ SqnMax >= MaxPackets       \* rekeyed before the counter runs out

VARIABLES
  gen,    \* generation the peer still accepts at least
  step    \* steps of the current rekey done

rekeyVars == <<vars, gen, step>>

SpiOf(n) == (n % 2) + 1

RekeyInit ==
  /\ iface = [i \in Iface |-> "encrypt"]
  /\ egress = [t \in Tunnel |-> IF t = Rekeyed THEN NewOutbound(SpiOf(0), 0) ELSE NONE]
  /\ ingress = [x \in InKey |-> IF x = InKeyFor(Rekeyed, SpiOf(0))
                  THEN [vni |-> Rekeyed.vni, key |-> 0, window |-> 0, last |-> 0, seen |-> {}]
                  ELSE NONE]
  /\ wire = {} /\ packets = 0 /\ received = [n \in PacketId |-> 0]
  /\ outKeys = {0} /\ inKeys = [k \in KeyMaterial |-> IF k = 0 THEN 0 ELSE NONE]
  /\ bypassed = {}
  /\ gen = 0 /\ step = 0

CryptoWorks == egress' # egress => wire' # wire

InstallNew ==
  /\ step = 0 /\ gen < MaxGen
  /\ CreateIngress(Rekeyed, SpiOf(gen + 1), gen + 1, 0)
  /\ step' = 1 /\ UNCHANGED gen

ReplaceOld ==
  /\ step = 1
  /\ UpdateEgress(Rekeyed, SpiOf(gen + 1), gen + 1)
  /\ step' = 2 /\ UNCHANGED gen

DeleteOld ==
  /\ step = 2
  /\ DeleteIngress(InKeyFor(Rekeyed, SpiOf(gen)))
  /\ step' = 0 /\ gen' = gen + 1

RekeyNext ==
  \/ Traffic /\ CryptoWorks /\ UNCHANGED <<gen, step>>
  \/ InstallNew \/ ReplaceOld \/ DeleteOld

\* The control plane carries a rekey through once it has begun one.
RekeySpec ==
  /\ RekeyInit /\ [][RekeyNext]_rekeyVars
  /\ WF_rekeyVars(InstallNew) /\ WF_rekeyVars(ReplaceOld) /\ WF_rekeyVars(DeleteOld)

\* No gap: every packet handed over leaves encrypted, and until the association of its generation
\* is deleted the peer accepts it, whatever step the rekey is at.
Gapless ==
  /\ \A n \in 1 .. packets : \E f \in wire : f.id = n /\ f.esp
  /\ \A f \in wire : f.key >= gen => ClsAccepts(f) /\ DecapAccepts(f)

\* A frame of an earlier generation that turns up late is not taken for one of the association
\* that now has its SPI.
LateFramesRefused == \A f \in wire : f.key < gen => ~DecapAccepts(f)

\* The procedure never gets stuck half way: every key that was provided is reached, although each
\* step is refused unless the one before it took effect.
RekeyCompletes == <>(gen = MaxGen)
===============================================================================
