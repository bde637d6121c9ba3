----------------------------- MODULE DhcpLeases -----------------------------
(***************************************************************************)
(* check_dhcpd_leases.py: the lease file of ISC dhcpd, a journal in which  *)
(* the last block of an address counts, against white and black lists.     *)
(*                                                                         *)
(* A block has the address, the binding state, the machine (its name and   *)
(* hardware address; "none" if the block does not say), nested, a          *)
(* statement in braces before the name, and odd: the address is in a form  *)
(* that the reader does not know, or the word lease in one more line.      *)
(***************************************************************************)
EXTENDS PluginStep

LeaseBlocks ==
    {b \in [ip : {"a", "b"}, state : {"active", "free"}, host : {"GOOD", "BAD", "none"},
            mac : {"AA", "BB"}, nested : BOOLEAN, odd : BOOLEAN] :
        /\ b.mac = IF b.host = "BAD" THEN "BB" ELSE "AA"
        /\ b.nested => b.ip = "a" /\ b.state = "active" /\ b.host # "none"
        /\ b.odd => b.ip = "a" /\ b.state = "active" /\ b.host = "BAD" /\ ~b.nested}

LeaseWorlds ==
    [file : {"leases"}, blocks : {<<>>} \cup {<<b>> : b \in LeaseBlocks}
                                  \cup {<<b, c>> : b \in LeaseBlocks, c \in LeaseBlocks}]
    \cup [file : {"absent", "foreign"}, blocks : {<<>>}]

\* MACs are given as "AA" and "BB" with colons or without separators, as "A-A"
\* and "B-B" with dashes.
LeaseOptions ==
    [hostWhite : {{}, {"GOOD"}}, hostBlack : {{}, {"BAD"}}, macWhite : {{}, {"AA"}, {"A-A"}},
     macBlack : {{}, {"BB"}, {"B-B"}}, given : {TRUE}]
    \cup [hostWhite : {{}}, hostBlack : {{}}, macWhite : {{"not a MAC"}}, macBlack : {{}}, given : BOOLEAN]

\* Colons are taken out before the format is tested, dashes are not.
ValidMacs(macs) == "not a MAC" \notin macs
LeaseValid(o) == o.given /\ ValidMacs(o.macWhite) /\ ValidMacs(o.macBlack)
LeaseTimeout == "CRITICAL"

\* The file is split at closing braces: a statement in braces ends the block for
\* the reader, and what follows it is a block without address.
OpenLeaseFile(w) ==
    CASE w.file = "absent" -> Fatal("CRITICAL")
      [] w.file = "foreign" -> Fatal("CRITICAL")
      [] OTHER -> [leases |-> w.blocks]

GetIp(b) == IF b.odd THEN "UNKNOWN" ELSE b.ip
GetHostname(b) == IF b.nested \/ b.host = "none" THEN "UNKNOWN" ELSE b.host
GetMac(b) == IF b.mac = "none" THEN "UNKNOWN" ELSE b.mac

\* (mutant: a later block of an address is added to the earlier one)
ParseLeasesAdding(leases) ==
    {[ip |-> GetIp(b), host |-> GetHostname(b), mac |-> GetMac(b)] :
        b \in {c \in Range(leases) : c.state = "active" /\ GetIp(c) # "UNKNOWN"}}

\* address_dict: each active block replaces what an earlier one said of its address.
ParseLeases(leases) ==
    LET taken == {i \in DOMAIN leases : leases[i].state = "active" /\ GetIp(leases[i]) # "UNKNOWN"}
        lastOf == {i \in taken : \A j \in taken : leases[j].ip = leases[i].ip => j <= i}
    IN  {[ip |-> GetIp(leases[i]), host |-> GetHostname(leases[i]), mac |-> GetMac(leases[i])] : i \in lastOf}

UnauthorizedLeases(o, addresses) ==
    {a \in addresses :
        \/ o.macWhite # {} /\ a.mac \notin o.macWhite
        \/ a.mac \in o.macBlack
        \/ o.hostWhite # {} /\ a.host \notin o.hostWhite
        \/ a.host \in o.hostBlack}

TestLeases(o, a) == Exit(If(UnauthorizedLeases(o, ParseLeases(a.leases)) # {}, "CRITICAL"))

LeaseStep(o, seen) ==
    IF ~LeaseValid(o) THEN Exit("UNKNOWN")
    ELSE IF seen = <<>> THEN Ask("lease file")
    ELSE IF IsFatal(seen[1]) THEN Exit(seen[1].fatal)
    ELSE TestLeases(o, seen[1])

\* What OK vouches for: of each address the block in force is free, or its
\* machine is one that the lists let in, by its name and by its hardware address.
TheFile == <<0, "file">>
LeaseClaims(o, w) ==
    LET inForce == {i \in DOMAIN w.blocks : \A j \in DOMAIN w.blocks : w.blocks[j].ip = w.blocks[i].ip => j <= i}
    IN  {TheFile} \cup inForce \X {"host", "mac"}
MacMeant(given) == IF given = "A-A" THEN "AA" ELSE IF given = "B-B" THEN "BB" ELSE given
LeaseHolds(c, o, w) ==
    IF c = TheFile THEN w.file = "leases" ELSE
    LET b == w.blocks[c[1]]
    IN  \/ b.state = "free"
        \/ c[2] = "host" /\ (o.hostWhite # {} => b.host \in o.hostWhite) /\ b.host \notin o.hostBlack
        \/ /\ c[2] = "mac"
           /\ o.macWhite # {} => \E m \in o.macWhite : MacMeant(m) = b.mac
           /\ \A m \in o.macBlack : MacMeant(m) # b.mac

\* A block without an address is passed over; the name that follows a statement
\* in braces is lost, so no black list finds it; MACs with dashes never match.
LeaseOverlooks(c, o, w) ==
    /\ c # TheFile
    /\ LET b == w.blocks[c[1]]
       IN  \/ b.odd
           \/ c[2] = "host" /\ b.nested /\ b.host \in o.hostBlack /\ o.hostWhite = {}
           \/ /\ c[2] = "mac" /\ (o.macWhite # {} => b.mac \in o.macWhite)
              /\ \E m \in o.macBlack : m # MacMeant(m) /\ b.mac = MacMeant(m)

\* A lease that was released, or whose last block is passed over, stays in the
\* list with the last active block that is read, and neither a name that is lost
\* nor a MAC with dashes is found on the white list that it is on.
LeaseExcuses(o, w) ==
    \/ \E m \in o.macWhite : m # MacMeant(m)
    \/ \E b \in Range(w.blocks) : b.nested /\ b.host \in o.hostWhite
    \/ \E i, j \in DOMAIN w.blocks :
         /\ i < j /\ w.blocks[i].ip = w.blocks[j].ip
         /\ w.blocks[i].state = "active" /\ (w.blocks[j].state = "free" \/ w.blocks[j].odd)
=============================================================================
