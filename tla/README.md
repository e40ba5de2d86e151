# WhiteBox NE in TLA+

TLA+ specifications of the WhiteBox network element: a Huawei-style command
line, a web service, a YANG (OpenConfig) adapter and a container entry point
around FRRouting. TLC checks the specifications on small instances, TLAPS proves
the central invariants for every size.

Paths below are relative to the root of the repository.

## The system

| Component | Source | State | Operations | Interacts with |
|---|---|---|---|---|
| policy-based routing | `src/frr_core/zebra/policy_route.c` | static array of 16 policies of 32 nodes, pointers to the policy and node of the current view | `policy-based-route`, five `if-match`, five `apply`, `undo`, `display` | nothing: kept in the process |
| BGP commands | `src/frr_core/bgpd/bgp_huawei.c` | `global_bgp_config`, a copy of what was typed | `bgp`, `router-id`, `peer ...`, `confederation ...`, `aggregate`, `display` | FRR, by vtysh |
| OSPF, IS-IS, RIP commands, static routes | `src/frr_core/{ospfd,isisd,ripd}`, `zebra/static_route.c` | a copy each, none for static routes | the same shape as BGP | FRR, by vtysh |
| VLANs and sub-interfaces | `src/frr_core/zebra/interface_*.c` | static arrays and counts | create, edit, undo | the kernel, by `ip` |
| high availability | `src/high_availability` | VRRP groups, BFD sessions, tracks | commands that fill the tables | each other by name only |
| QoS, zone firewall, ACL, NAT, AAA, GRE | `src/qos`, `src/security`, `src/ip_services` | static arrays, current-view pointers | find or create, edit | nothing |
| YANG to FRR | `src/openconfig_adapter/yang_to_frr.c` | none but the locals of one run | one run: read the datastore, send, save, restart | sysrepo, FRR, systemd |
| FRR to YANG | `src/openconfig_adapter/frr_to_yang.c` | none | one run: read FRR, fill the datastore | FRR, sysrepo |
| web service | `src/web_management/app.py` | none but its settings | queries, configuration requests, save | FRR, by vtysh with a timeout |
| Prometheus exporter | `src/monitoring/prometheus_exporter.py` | gauges | a scrape cycle | FRR |
| SNMP subagent | `src/snmp_subagent` | none | scalar reads | snmpd |
| entry point | `docker-entrypoint-optimized.sh` | process ids | start everything, start FRR or snmpd again, clean up | all of them |

FRR itself, vtysh, sysrepo and systemd are not in the repository. The dispatcher
that would call the handlers of the CLI is not either, nor
`execute_vtysh_command` of `huawei_cli.h`; the handlers are modelled from their
own text and the external parts from what the code expects of them.

What is hard in this system:

* **Pointers into shifted arrays.** Handlers keep the operator's view in static
  pointers; `undo` moves the elements under them and clears nothing.
* **Two copies.** A handler writes its own copy first and FRR second; vtysh may
  fail, FRR may restart from an older file, and nothing reconciles the copies.
* **Several writers, none of whom knows of the others.** Web requests, operators
  and the YANG adapter all configure, save and restart one FRR.
* **Partial failure.** The adapter logs a refused line and goes on; a web request
  is given up after a timeout while its commands may still take effect.
* **Fixed capacities and narrow integers** everywhere in the C code.

What makes each part correct: the tables hold one entry per name; a command edits
the entry its view names; removing one entry disturbs no other; what FRR runs is
written down in the copy; what was acknowledged as saved or converted survives
other writers, restarts and crashes; every request and every run ends; FRR comes
back.

## The modules

| Module | Models |
|---|---|
| `PolicyStore` | what policy-based routing promises: a set of nodes, entered empty, edited one clause at a time, removed with their policy |
| `PolicyRoute` | `policy_route.c` slot by slot, pointers included; implements `PolicyStore` |
| `PolicyRouteProofs` | its invariants and the refinement, proved |
| `Frr` | FRR as the code uses it (external) |
| `BgpCli` | `bgp_huawei.c`: `global_bgp_config` and the batches it sends to `Frr` |
| `BgpCliProofs` | its invariants, proved |
| `YangToFrr` | one run of `yang_to_frr.c` |
| `WebApi` | the requests of `app.py` that configure or save |
| `ConfigPlane` | `YangToFrr`, `WebApi`, operators, crashes and the loop of the entry point around one `Frr` |
| `ConfigPlaneProofs` | its invariants, proved |
| `FrrProofs` | what a batch of lines does to `Frr`, proved |
| `Routing` | `ospf_huawei.c`, `isis_huawei.c`, `rip_huawei.c`, `static_route.c` over `Frr` |
| `RoutingProofs` | its invariants and action properties, proved |
| `ViewedTable` | what the commands with a view promise: a set of named entries, and the one the view was opened for |
| `Tables` | the arrays, counts, pointers and prompts behind those commands |
| `ZoneFirewall`, `AclNat`, `Qos`, `AaaGre`, `Vlan`, `HighAvailability` | the commands of each component over `Tables`; `Vlan` with the devices in the kernel (external) |
| `TablesProofs` | what a search, an append and an edit make of one table, proved once for all components |
| `CliTables` | all of them side by side; each table with a view implements `ViewedTable` |
| `CliTablesProofs` | its invariants, action properties and the refinement, proved |
| `DatastoreExport` | what an export into a datastore with other clients promises |
| `FrrToYang` | one run of `frr_to_yang.c` after the other; implements `DatastoreExport` |
| `FrrToYangProofs` | its type invariant and the refinement, proved |
| `MC...` | instances for TLC |

### PolicyRoute

`policies` is the whole static array: slots past `policy_count` keep what they
held, because a policy created later finds it there. `current_policy` is a slot
number (0 for NULL), `current_node` a slot and an index: it is an address, so it
stays while the contents move. `prompt` is the view the last "Entering policy"
line named, as typed; the code prints it and keeps nothing of it. There is one
action per command; the five `if-match` handlers differ only in the field they
set, as do three of the `apply` handlers, so they share an action with the field
as parameter. `apply ip-precedence` and `apply dscp` narrow their argument to 8
bits before they compare it, and so does the model. A policy name is stored cut to
63 bytes but compared whole; `Stored` is that cut. A command the code refuses
before it changes anything is no step. The two `display` commands and
`ip policy-based-route` change none of this state and are left out. Commands run
one at a time: nothing in the code starts a second thread.

### Frr and BgpCli

The configuration of FRR is a value per item, in memory (`running`) and on disk
(`startup`). A batch of lines is accepted as a whole, or refused at some line
with the lines before it in force; the code cannot tell more than the exit code.
`router bgp` with another AS than the running one is refused, as FRR does, unless a
line before it in the batch was `no router bgp`; any batch may be refused for reasons of FRR's own, or because it is down.

The variables of `BgpCli` are the fields of `global_bgp_config` that handlers
write and read. Each handler writes the copy and calls vtysh; both are one step,
since the process of the CLI does nothing else meanwhile, and the reply of vtysh
only decides what is printed. Observed in FRR are the AS, the neighbors and the
route reflector clients; lines about anything else are sent, and may be refused,
without a visible effect. `bool enabled` and the timers of a peer are constants
after creation and left out. Peer addresses are at most 63 characters here.
FRR is saved, dies and restarts independently (`FrrNext`).

### YangToFrr, WebApi and ConfigPlane

`YangToFrr` follows one run. A step is one vtysh call and the reads right before
it, so the datastore may change between any two calls: the interface states and
the neighbor list are read once, each peer AS when its turn comes. The names of
interfaces are read and sent as bare `interface` lines; that loop configures
nothing observed and is one step with the reads around it. The order in which
sysrepo returns a list is not specified, so any order is allowed.

`WebApi` has a request per thread (`Workers`): free, waiting for vtysh, or given
up while vtysh's commands may still take effect. All configuring routes have one
shape (check the switch, check the arguments, one batch) and are one action with
the batch as parameter. They join their lines with `; ` into one `-c` argument;
what vtysh makes of it is outside the repository, and the model allows that it
takes the lines one by one as well as that it refuses them all.

`ConfigPlane` is the interleaving of all of them. `kept` and `pushed` are history
variables, which no guard reads: what a client was last told is saved, and what
FRR took from the current conversion. Both forget an item as soon as somebody
gives it another value. `as_lost` is another: it is set when, after a conversion got
its AS into FRR, somebody sends `no router bgp`, or FRR crashes before the conversion
has saved. `/api/command` passes any text to vtysh (`app.py:158-180`), so a
removal of BGP may come at any time, by itself or before another `router bgp`, and
no property can hold of the AS after it; `SuccessHasItsAs` exempts these runs and no others.

### Routing

The copies of OSPF, IS-IS and RIP are variables of their own; a static route is
only sent. What the four files share is modelled once: a batch opens with the
process of the copy (`SendOspf`, `SendIsis`, `SendRip`) and carries one line. The
differences between the protocols are kept, because they are what the properties
are about: `area` tells FRR nothing; `vlink-peer` sends only what the table has
room for, `network` and `silent-interface` of RIP send what the full list cannot
keep; `isis` entered again sets the copy to level-1-2 and FRR to nothing; the two
`undo` commands wipe the copy only after FRR has answered, and `undo isis` wipes
it whatever process it named. `TakenAsWritten` therefore exempts, apart from restarts, a
network or silent interface typed when its list was full already (`NoRoomFor`), and
says nothing of items that FRR keeps while the copy moves on, which is what
IS-IS does by design. The preference of a static route is a `uint32_t`: -1 wraps
around and is refused by the comparison with 255 for IPv4, and not refused for
IPv6, where nothing is compared.

### Tables and the components on them

The handlers of six components have one shape, `Enter` in `Tables`: search the
array, append if nothing is found and there is room, leave the pointer at the
result, print the view. What differs is in the modules of the components: what is
compared before the search (ranges, after narrowing to 8 or 16 bits), what a new
entry holds, which lists grow in an entry and where they end, and whether the view
is announced before or after the pointer is looked at. `name` stands for whatever
an entry is found by. `prompt` is, as in `PolicyRoute`, the last view announced.

`ViewedTable` is the promise that all of these make without arrays and pointers,
and `ViewsHold` that each table keeps it: a command given in a view changes the
entry the view was opened for, or nothing. That is what a stale pointer, a full
table or a name that is narrowed after the search would break, and what
`policy_route.c` and `interface_vlan.c` do break; eleven other tables hold it. Applied
traffic policies are named by the command and not by a view, so that field is left
out of the content compared.

`HighAvailability` keeps the union in a track as the bytes last written and the kind
that says how they are read (`UnionReadAsWritten`). `Vlan` has the devices of the kernel
as far as the code creates them: `eth0` carries a VLAN id on one device, a command
that cannot be done does nothing, and its error goes to `/dev/null`.

### FrrToYang

A step is one function of the code, or one of its questions to vtysh. The items a
function sets are in the session, unseen, until `sr_apply_changes` at the end; the
first that fails ends the run. The answer of vtysh only decides whether a constant
is written: the AS in the datastore is 65001 and the neighbor 192.168.1.2 whatever
FRR runs. Other clients edit the datastore, and the host name changes, between any
two steps. `DatastoreExport` has the whole run as one step, `Commit`.

The two adapters do not meet: the export writes `SR_DS_STARTUP` (`frr_to_yang.c:399`),
the conversion reads `SR_DS_RUNNING` (`yang_to_frr.c:360`), so a round trip goes through
sysrepo's copy from startup to running, which neither program makes. That is why
`FrrToYang` and `YangToFrr` are not composed.

## The runs

| Run | Shows |
|---|---|
| `policy_slots` | `UniqueNames`, `LiveSlotsFilled`, `PromptNotAhead`, `ViewCoherent`, and that `PolicyRoute` implements `PolicyStore` |
| `policy_nodes` | `TypeOK`, each clause with its own range, and `UniqueNodeIds`, with more node ids than slots and every kind of clause |
| `policy_edits` | violated: `EditsReachPromptedNode` |
| `bgp_cli` | `TypeOK`, `PeersRecorded`, `ReflectorsRecorded` |
| `bgp_stale` | violated: `FirstEntryCurrent` |
| `config_plane` | `TypeOK`, `SavedSurvives`, `ConversionSticks`, `SuccessHasItsAs`, `RequestsAnswered`, `ConversionEnds`, `FrrComesBack` |
| `config_deletions` | violated: `InStep` |
| `routing` | `TypeOK`, `AreasRecorded`, `VirtualLinksRecorded`, `TakenAsWritten`, `RipWipedLast` |
| `cli_tables` | `TypeOK`, `QueuesDistinct`, `DuplicatesPowerless`, `DevicesAccountedFor`, `GroupsCoherent`, `UnionReadAsWritten`, `AclRulesKept`, `QueuesKept`, and that each table implements `ViewedTable` |
| `cli_vlan_view` | violated: `VlanViewHolds` |
| `cli_vlanif_address` | violated: `AddressesInstalled` |
| `export` | `TypeOK`, that `FrrToYang` implements `DatastoreExport`, `ExportEnds` |

**Bounds.** `policy_slots`: four names for three slots, so that the table fills,
slots are given up in every position, shifted over and used again; one node
each, since a shift moves whole policies. `policy_nodes`: one slot of two
nodes, two names and three ids (0 among them, which is what `atoi` makes of a
word), so that both tables fill and a slot is used again
with the nodes of another policy in it; all kinds of clauses, of which two are set at a
time (`MaxClauses`), since a command writes one clause of one node and compares it with
nothing; precedences that narrow to 6 and to 8, DSCPs that narrow into their range and one
that is out of it as it is. `bgp_cli`: two addresses, two
ASes besides AS 0 (a word typed for a number) and room for two entries: an address can have two entries, in both orders,
or the table can be full of the other address. The capacities 64, 32 and 16 of
the code occur only in comparisons with a count; the theorems hold for all of
them. `config_plane`: one interface, one neighbor, one web thread, a crash and
two edits of the datastore, which may fall before, within and between runs. Every
action can then be overtaken by every other one; a second web thread would only
interleave a second saving or configuring client, which operators (`OperatorStep`)
already are. Clients of `/api/command` and operators also remove BGP, with the neighbor under it;
operators start it again with another AS. The hostname and the router id stay unset there: their lines are not
observed. FRR may crash once (`MaxCrashes`); after it comes back every state is one
that a further crash could start from, except for the bound itself.
`routing`: two of most things, process 0 (a word typed for a number) and 2; three areas
and room for two, room for one virtual link, for two networks and for two silent
interfaces, so that a list has an element, is full, and is too small for the next command. At most two items in FRR and one saved
(`MaxItems`) and one setting in the copy of OSPF (`MaxEdits`): a step of the code
relates one item of FRR to one entry of a copy, so a counterexample needs an item, the
entry and one more of either. The protocols are explored one at a time; they share
nothing but the daemon. `Word` is 1024 and stands for 2^32: the code compares with 255
only. `cli_tables`: tables of one to three entries and lists of one or two elements,
each reached by more names than it has room for; numbers on both sides of 8 and 16
bits, 0 and below; all entries of a table together differ from new ones in at most two
fields or list elements (`MaxEdits`), since a command changes one entry and the property
needs one other to compare with. The tables of VLANs never fill, as in the code. The
components share no state and are explored one at a time. `export`: two host names,
one value of another client, two edits of others (`MaxEdits`), which may both fall
into one run.

**Deadlock** is checked in `bgp_cli` and `routing`, where FRR can always move. The other
systems may stop: a command table with no view entered has no edit to make, and
all clients may be done.

**Fairness.** `RequestsAnswered` rests on the timer of `subprocess.run` alone
(`app.py:64`), not on vtysh: a request that vtysh never answers is answered by
the timer. `ConversionEnds` assumes that each vtysh and systemctl call of the
adapter returns, since `system()` waits for it without a limit. `FrrComesBack`
assumes that the entry point's loop keeps running and that `service frr start`
succeeds in the end; it is tried every 30 seconds (`docker-entrypoint-optimized.sh:406-419`).
`ExportEnds` assumes that each vtysh and sysrepo call of the export returns: `popen`,
`fgets` and `sr_set_item_str` wait without a limit. Clients, operators and FRR have no
fairness.

**What the violations are.**

* `policy_edits`: enter policy a, enter b, enter a again, `undo` a. The array
  shifts, `current_node` now points into b, and the next `if-match` configures b
  under a prompt that says a. Short of an undo the view and the node never part:
  that is `ViewCoherent`, which holds and is proved.
* `bgp_stale`: `peer X as-number 1`, then `peer X as-number 2`. FRR changes the
  neighbor, the copy has two entries, and the one that the display shows first and
  that description, reflect-client and route-policy edit is the outdated one.
* `config_deletions`: an item deleted from the datastore stays in FRR, however
  often the conversion is run, although the guide gives running it as the remedy
  for the two being out of step (`OPENCONFIG_GUIDE.md:321-330`).
* `cli_vlan_view`: `vlan 1`, `vlan 2`, `vlan 1` again, `description`: the text goes
  to VLAN 2, the entry added last, under a prompt that says 1.
* `cli_vlanif_address`: `vlan N` creates `eth0.N`; `interface VlanifN` then cannot
  create `vlanN` for the same id, the failure is silenced, and the address given to it
  is recorded and shown and in no device.

**What is not true, and therefore not stated.** FRR and a copy do not agree
on everything: IS-IS entered again, a full list of RIP and `undo isis` of another
process each part them; the automatic ids of ACL rules may collide with typed ones (only
that no rule is lost or changed holds, `AclRulesKept`). We found no document that promises the
contrary, so these are described here and are no findings.

The effective priority of a VRRP group is another matter. The field is "Effective priority
after track" (`vrrp.c:57`), the commands `track ... reduced` keep a reduction
(`vrrp.c:340-422`), and `src/high_availability/README.md:160-178` promises that the
priority falls from 120 to 90 when the tracked interface goes down. Nothing computes this:
`effective_priority` is written where a group is created (`vrrp.c:124`) and by `priority`
(195), and no state of an interface or session ever changes in this code. The two disagree.
There is no behaviour to show it by, since the event that should reduce the priority does not
occur in the program, so it is stated here and no property says anything of the field but
its range. `frr_to_yang.c:181` does not compile as it stands
(`sr sr_free_val`); the model reads it as the `sr_free_val` it must be.

Operators whose names end in `_Faulty` are seeded faults: a definition with a
plausible slip. No action uses them; replacing the definition by the faulty one
makes the property listed with it in `PROJECT.json` fail, which shows that the
property looks at the code.

## The proofs

`PolicyRouteProofs` proves, for any number of policies, nodes, names and values,
that `TypeOK`, `UniqueNames`, `UniqueNodeIds`, `LiveSlotsFilled`, `ViewCoherent`
and `PromptNotAhead` are invariants. They are inductive together (`IInv`), and
none of the interesting ones is alone: `ViewCoherent` after an undo needs
`UniqueNames`, since a shift brings another policy into the slot the node pointer
looks at, and `PromptNotAhead`, since otherwise that policy could be the prompted
one with its nodes in another order; the searches need `TypeOK`. The invariant has
two halves. What is about the memory (`MemoryInv`: `TypeOK`, `UniqueNodeIds`,
`LiveSlotsFilled`) is inductive by itself and holds whatever is typed. What is about
names (`NamesInv`) assumes `NamesFit`, that no name is longer than the field it is
stored in, as the code leaves it unchecked: a longer name is cut when stored and compared
whole, so each command with it creates one more policy and `UniqueNames` fails.

The same module proves that `PolicyRoute` implements `PolicyStore` (`StoreImplemented`,
under `NamesFit`). The nodes in use are written as a function of the array and the
count (`Held`), so that each command is a statement about two arrays: `ClauseConfigures`
replaces one member, `UndoRemoves` shows that the shift drops the nodes of one policy and
renumbers the rest, and `EnteringEnters` adds one. `ShownOnce`, from `UniqueNames` and
`UniqueNodeIds`, is what makes two nodes that look alike one node; without it an edit of
one could leave its double in the store. The capacities of the abstract specification come from
counting slots (`PoliciesCounted`), which is where `FiniteSetTheorems` is used.

`BgpCliProofs` proves `TypeOK`, `PeersRecorded` and `ReflectorsRecorded` for any
number of peers, addresses and ASes, from the assumptions on the constants alone.
The argument: a batch changes in FRR only the items of its own lines
(`VtyshEffect` of `FrrProofs`, from `LastLineIs`: the last of the lines about an
item exists, by the least-element theorem for natural numbers); the copy only grows at its end or changes one entry in place
and never loses an address, an AS or a reflector flag (`AppendEntry`,
`EditEntry`); and the line about a peer follows what was just written down. The
startup configuration is at all times an earlier running one.

`RoutingProofs` proves everything that the run `routing` checks, for any number of
processes, areas, links, networks and routes, any capacities and any width of a
preference above 256. The invariants are inductive together with one more fact, that the
saved configuration has no preference out of range either: a restart makes it the running
one. A step is shown right in every respect at once (`Kept`): a command that does not touch
areas, links or routes preserves the invariant by `ElsewhereIInv`; one that does,
by `StillIInv`, from the fact that no area loses its type and no link its entry; a move of
one whole configuration to the place of another, which is what saving, stopping and
starting FRR do, by `MovedIInv`. `WrittenCases` takes `WrittenDown` apart once.
What a batch does is the same for all protocols and BGP and proved in `FrrProofs`.

`ConfigPlaneProofs` proves `TypeOK`, `SavedSurvives`, `ConversionSticks` and
`SuccessHasItsAs` for any number of request threads, items and crashes and for batches of any length.
The steps of all actors come down to two effects on FRR while it runs: items get new values
(`Taken`), or the running configuration becomes the saved one (`Saved`); starting and
crashing are the rest. `WebEffect` and `ConvertEffect` show that for each handler. The
strengthenings are what the properties say of a running FRR, said of the file as well:
a kept promise is in the file even while FRR is down (`SavedIsInFile`), what was pushed is
there only while FRR has not died and is in the file once the run is about to restart FRR
(`PushedIsRunning`), and the AS of the run is in force from the line "router bgp" on and in
the file from the save on (`AsIsRunning`), until `as_lost`. The last rests on FRR refusing a
second AS: `AsStaysSo` of `FrrProofs` shows, by the first line that names another one, that
a batch without `no router bgp` leaves a running AS alone, whatever else is in it. Nothing is
assumed of the batches but that they hold values; one with `no router bgp` is a step of
its own kind (`Changed` instead of `Taken`) and sets `as_lost`.

`FrrToYangProofs` proves `TypeOK` and the refinement of `DatastoreExport`, by mapping
each step to `Begin`, `Commit`, `Fail`, `Edit` or none. The strengthening is
`SessionWhole`: the session holds whole groups, each with the values the code writes, and
the items of every export as soon as the run has passed them. Without it the last step
could not be shown to be a `Commit`. Fairness plays no part in it.

`CliTablesProofs` proves all that the run `cli_tables` checks, for all nineteen tables,
any capacities, any names and any integers typed. The argument has three layers.

* `TablesProofs` says what the shared operations of `Tables` do to one table: a search
  finds the entry of a name or ends at the free slot (`SearchByName`), a pointer
  that is not NULL is at an entry in use, and `Enter`, `Set` and `Add` then open, create, edit or
  refuse (`Entering`, `Setting`, `Adding`, `Appending`).
* For each component, each command is one of the steps a table knows (`Touches` for a
  table with a pointer, `Keeps` for the others): a view opened, an entry created, the entry
  behind the pointer replaced by one of its `Successors`, or a refusal. `Successors` says
  what a command may make of an entry: the same name, the rules of an ACL a prefix of
  the new ones, every queue in its place with its discipline. `Fitting` says what an entry
  is: of its type, its lists within their arrays (the operands of a boolean track by
  `OperandsTyped`), the queues of a profile distinct, a VRRP
  group coherent, a track's union readable by its type. The hard cases are the lists that are
  edited in place (`QueueTouches`, `VrrpTouches`), the ACL rule that is taken before
  it is read and given back when it is refused (`TakenAndGivenBack`), and the removals from the VLAN tables
  (`Removing`, `VlanKeeps`), which pair the entries with the devices in the kernel again.
* `StepsOfTables` puts them together: a command is about one table and a stutter of every
  other. `ViewStepKeeps` shows once that the steps keep the invariant, and
  `ViewStepImplements` that they are steps of `ViewedTable`, so the refinement holds for
  all eleven tables with a view by one argument.

The inductive invariant (`IInv`) adds to the properties what they rest on: no two
entries of a table with a view share a name (`NamesDiffer`), the pointer is at the entry whose view was
announced last (`ViewIsCurrent`), and a table whose commands use no pointer has none. A
refinement without `ViewIsCurrent` would fail at the first edit. Users and VLANs are not
among the tables with unique names: two users may share one, and what holds
of them is `DuplicatesPowerless`; `DevicesAccountedFor` is inductive by itself given the types.
TLC found `IInv` to be an invariant of an instance before it was proved. The assumptions are
those on the constants: what is typed is an integer, the lengths of lists are in `Nat`, a
capacity is at least one, and, for the VLANs, the tables hold all ids (`VlanAssumption`: 4096 entries for 4094 ids, as in
`interface_vlan.c`).

Only model-checked: `RequestsAnswered`, `ConversionEnds`, `FrrComesBack` and `ExportEnds`,
because liveness under fairness and `ENABLED` are out of reach of the prover, as
induction over data is; and what the runs show to be violated, for which a counterexample is the
proof. Every other property of a run is a theorem. No module with a theorem uses recursive operators.

## Not modelled, and what comes next

Left out for good:

* the display commands: printing;
* the command table of `lib/command.c`: its dispatcher is not in the repository;
* the flowspec and SRv6 stubs and the commands for one interface of OSPF, IS-IS and
  RIP: they print and keep nothing;
* the Prometheus exporter: it reads FRR and the host on every scrape and keeps nothing
  between two scrapes that another part reads;
* the SNMP subagent, the web page, the YANG files, the FRR patch, the monitoring
  configuration, the build and install scripts;
* the start-up half of the entry points: one sequence that ends before anything else
  runs.

What is left to do: properties for the hazards that have none yet, such as a policy name that
is cut when stored (`PolicyRoute` has `Stored` for it, and the runs take names that fit); and the
lemmas of `FrrProofs` stated as theorems, for a reader of `BgpCli` or `ConfigPlane`.
