# ParDiff VPN: TLA+ specifications and proofs

ParDiff VPN sells traffic credit for PPTP and OpenVPN access. Everything the
business relies on is a handful of MySQL tables (`db/init.sql`) which web pages,
cron jobs and pppd/OpenVPN hooks update concurrently. No program opens a
database transaction: one SQL statement is one atomic step, every handler is a
sequence of such steps, and another handler, or a crash, can come between any
two of them. The models therefore have one action per statement (or per group of
statements that only read what no longer changes), one small record with a
program counter per running process, and a `Crash` action wherever a process can
die half-way.

Underneath, the repository carries its own copy of OpenVPN 2.1.1. There the
processes are the two ends of a tunnel, and what comes between their steps is
UDP: packets that are lost, repeated, overtaken or late. Two of its layers, on
which every tunnel rests and which keep the state that is hard to get right, are
modelled: the reliability layer of the control channel with the key negotiation
on top of it, and the replay window of the data channel with the fragment
reassembly on top of that.

## 1. Inventory

| Component | Source | State | Operations | What is hard |
|---|---|---|---|---|
| Alipay payment | `payment/web/payment` | `payment_transactions`, `login.credit`, `transactions_records` | new order, return page, notification page | lost/repeated redirects, concurrent return pages, a crash between PAID and credit |
| Coupons | `web/user/coupon`, `generate-coupons.pl`, `check-status-coupon.pl`, admin `check_coupon` | `coupons`, `login`, `transactions_records` | generate, validate, redeem | two redemptions of one card, crash between consuming and crediting, cards looked up anew by each statement with `LIKE` |
| Accounts and expiry | `web/user/create.cgi`, `web/user/cp`, `web/admin/main.cgi`, `expire.pl` | `login`, `admins` | register, change password, admin add/enable/credit/extend, expire | stale reads before updates, expiry cron racing a recharge |
| PPTP accounting | `src/pppd-sql-0.8.0/src/plugin.c`, `mysql-ip-up`, `mysql-ip-down`, `update_traffic.pl` | `connections`, `login.credit`, pppd's counters | link up, link down, cron poll and kill | cron racing ip-down, reused interfaces, 32-bit counters, pppd dying |
| PPTP login | `src/pppd-sql-0.8.0/src/auth-mysql.c` | `login.status`, row locks | password lookup, status update, link up/down hooks | exclusive login across pppd processes, failures that leave `status = 1` |
| OpenVPN accounting | `openvpn-refresh.pl` | `openvpn_connections`, `connections`, `login.credit` | cron poll of the management interface | crash between its statements, sessions between polls, int(11) saturation |
| OpenVPN login | `src/myopenvpn/myopenvpn.c` | `login` (read) | check a user | login admitted on stale credit |
| OpenVPN control channel | `src/openvpn-2.1.1/reliable.c`, `ssl.c` | per peer: send and receive windows, pending acknowledgements, packet ids that wrap, the key's negotiation state | `tls_process`, `tls_pre_decrypt`, retry timer, handshake window | lost, repeated, overtaking packets and acknowledgements; windows at their limits; id wraparound; both sides waiting for each other |
| OpenVPN data channel | `src/openvpn-2.1.1/packet_id.c`, `fragment.c` | sender's packet and sequence ids; receiver's replay window and reassembly buffers | encrypt and send, accept or refuse, reassemble, time out | replayed and late packets, expiring window entries, sequence ids that wrap, a burst lost between fragments |
| Tickets | `web/user/ticket`, `web/admin/main.cgi` | `ticket_threads`, `tickets`, the mails with the thread's token | open, reply, answer and set the status | a reply racing the support's answer, a page dying between thread and message |

How the parts meet: all of them share `login`. Payments, coupons and the
administrator add to `login.credit`; the two accounting jobs and `mysql-ip-down`
subtract from it; the login checks read it. `expire.pl`, coupons and the
administrator's pages write `account_state` and `expire_at`, which the login
checks read. `connections` is written by the PPTP scripts, by the PPTP cron job
and by the OpenVPN cron job. Nothing else connects the parts: there are no
messages between them, and all updates of `login.credit` are relative
(`credit = credit + ?`), which is why each component can be modelled with its
own view of the table. The two ends of an OpenVPN tunnel exchange packets only,
and the control and the data channel meet only in the key one hands to the other.
Tickets touch no other table.

The things that are hard to test, each at its line, are the `hazards` of
`PROJECT.json`.

## 2. Modules

| Module | Models | Extended by |
|---|---|---|
| `OneTimeCredit` | abstract: a voucher is issued, consumed once, granted once | instantiated by `Payment`, `Coupon` |
| `Pricing` | `get_price`, `get_discount`, the calculator of `view.php`, the rounding of an `int` column | `Payment` |
| `Payment` | `new-order.php`, `return_url.php`, `notify_url.php`, `transactions.php` | `MCPayment`, `PaymentProofs` |
| `Coupon` | `generate-coupons.pl`, `validate.cgi`, `coupon_credit.cgi`, `check-status-coupon.pl` | `MCCoupon`, `CouponProofs` |
| `PptpAccounting` | `plugin.c` (hooks), `mysql-ip-up`, `mysql-ip-down`, `update_traffic.pl` | `MCPptpAccounting`, `PptpProofs` |
| `OpenvpnAccounting` | `myopenvpn.c`, `openvpn-refresh.pl` | `MCOpenvpn`, `OpenvpnProofs` |
| `PppAuth` | `auth-mysql.c` and the hooks of `plugin-mysql.c` | `MCPppAuth`, `PppAuthProofs` |
| `Registration` | `create.cgi`; `add_user` and `onchangecredit` of `main.cgi` | `MCRegistration`, `RegistrationProofs` |
| `Expiry` | `expire.pl`; the pages that change `account_state` and `expire_at` | `MCExpiry`, `ExpiryTicketProofs` |
| `ReliableStream` | abstract: two streams of records, nothing lost, repeated, reordered or invented | instantiated by `ControlChannel` |
| `ControlChannel` | `reliable.c`; `tls_process`, `tls_pre_decrypt` and the key states of `ssl.c` | `MCControlChannel`, `ChannelProofs` |
| `ReplayWindow` | `packet_id.c`: the receiver's replay window as operators on a record | `DataChannel` |
| `DataChannel` | `fragment.c`, and the replay check of `crypto.c` in front of it | `MCDataChannel`, `ChannelProofs` |
| `Tickets` | `ticket/create.cgi`; `list_tickets` and `mod_ticket` of `main.cgi` | `MCTickets`, `ExpiryTicketProofs` |

Conventions. A table is a function from its keys (orders, cards, sessions, user
names) to a column. A running process is a record with a program counter `pc`
that names the statement it will execute next; `Goto` moves it. Variables marked
"history" are not in the program; they record what happened (how often a voucher
was granted, who lost a process) so that properties can speak of it. Definitions
marked as mutants are wrong on purpose: each is a small change of the definition
below it and is used by no specification.

**Payment.** `NewOrder` inserts an order with the price of `Pricing`. Alipay is
external: `Pay` turns the trade to SUCCESS, `Redirect` sends the browser to
`return_url.php` (possibly never, possibly several times at once), `Notify`
posts to `notify_url.php`, whose body is `notify_url` and changes nothing.
A request runs `Lookup` (the script's comparison with the stored status),
`pay_transaction` (`UPDATE ... WHERE status = 'UNPAID'`, whose affected rows
decide), `ChargeRecord` and `ChargeCredit` (the two statements of `charge`);
`Crash` ends it anywhere.

**Coupon.** A redemption runs `CheckUser`, `CountUnused`, `UseCoupon`,
`ReadCredit`, `CreditLogin`, `WriteRecord`. `UseCoupon` goes on whether or not
its `UPDATE` hit a row, because DBI's `execute` returns the true value `0E0`.
The page only tests the length of what was typed and matches its two halves with
`LIKE`, so a typed string is the set of cards it matches (`Typed`): one for a card
number, none for a wrong one, several for a string with pattern characters. Each
statement looks the cards up anew: the count and the `UPDATE` among the unused
ones (`Unused`), the `SELECT` of credit and days among all (`Matching`), and
`UPDATE ... LIMIT 1` and the fetch of one row take the first in the order of
insertion (`IsFirst`: no key on these columns, no row is ever deleted). `blurred`
notes the cards matched by a submitted string that matches others too.

**PptpAccounting.** `link[i]` is the pppd on interface `i` with the script it is
in; `LinkUp`, `IpUpClose` (closing the rows earlier sessions left on the
interface), `IpUpInsert`, `Traffic`, `Hangup`, `IpDownClose`, `IpDownCharge`.
The cron job walks the interfaces (`CronRead`, `CronWrite`), selects the rows
above the limit (`CronSelectLimit`) and then the overdrawn ones
(`CronSelectCredit`), kills the pppds of each selection one by one (`CronKill`) and
closes the selected rows (`CronClose`). `Traffic` lets a counter grow to any of the
readings `RxCounts` and `TxCounts`; `PrintedBytes` is what `"%d"` prints of an
unsigned 32-bit counter: it wraps at `2 * Half` and is negative from `Half` on.
`ScriptFails` covers both settings of `mysql-ip-up-fail` and `mysql-ip-down-fail`:
pppd carries on or dies. When a pppd dies without its hooks (`PppdDies`), a script
it is running is taken to end with it. This leaves out a `mysql-ip-up` that
outlives its pppd and inserts its row after the interface name was taken again,
in which case the interface has two open rows until the next session on it.

**OpenvpnAccounting.** `Poll` reads the client list and byte counts, `Record`
inserts or updates one row, `Collect` and `Kill` find and drop users who used up
their credit, `Archive`, `Charge`, `Delete` move a finished session's row.
`StoredTraffic` is an `int(11)` column: it saturates, or keeps its old value if
the server is strict. The SQL mode (`strict`) and each user's credit (`Credits`)
are chosen in the initial state.

**PppAuth.** One process per client: `Connect`, `Select` (with the row lock if
`mysql-exclusive`), `Verify`, `SetStatus` and its commit, the link, `Revert`.
`opts` is the set of options all pppds were started with.

**Registration.** `Register`/`RegisterInsert` are the two statements of
`create.cgi`; `AddUser`, `exist_username`, `AddUserInsert`, `WriteRecord` the
four of `add_user`; `OnChangeCredit`, `WriteRecord` the two of `onchangecredit`.
Addresses are four octets, converted to and from numbers exactly as the source
does. `raced` notes an insertion with an address that was no longer the next.

**Expiry.** A run of the job is `SelectExpired` (first selection), one `Mail` per
selected account, `SelectOverdue` (second selection), one `Suspend` per selected
account, `JobEnds` (or `JobDies`). The driver fetches a selection completely when it is executed,
so the list is as old as the `SELECT` when the updates come. `Redate` is the
`IF(expire_at, ...)` both pages use. Dates are day numbers. `notice[u]` notes the
day of the first mail about the account's current date, and `punctual` the
accounts for which a run got through its mails on the day after that date.

**ControlChannel.** `ks[p]` is the `key_state` of peer `p`: `send` is
`send_reliable` (an entry is `due` when `now >= next_try`), `held` is
`rec_reliable`, `ack` is `rec_ack`, and `in` and `out` are the records that went
into and came out of the TLS object, which is external: it produces the records
of each flight (`FlightEnd`) once the flights before it went in. A call of
`tls_process` is a loop; one action is one `Turn` of it, in the order of the
source (`FirstPart`: initial packet, handshake window, the two waits for
`FULL_SYNC`; then a packet is sent, or `Rest`: receive, keys, queue). `Begin` is
the first turn, `Continue` the next ones, and `Return` leaves the loop with a
packet, an error, or nothing changed, when what is left to acknowledge is sent.
Between two turns (`call`) only the peer's own timers can move, since every turn
reads the clock anew and the process does nothing else; what happens elsewhere
meanwhile happens as well before or after the call. `tls_pre_decrypt`
takes one packet off the network. `NextTry` and `WindowPasses` are the clock,
`Lose`, `Repeat` and `Overtake` the network. Packet ids wrap at `PidMod`, and the
range tests of `reliable.c` are translated with their wraparound cases.

**ReplayWindow, DataChannel.** One direction under one key. `fragment_outgoing`
cuts the next datagram and `check_fragment` sends its next fragment; both number
the packet (`encrypt_sign`). `process_incoming_link(id)` delivers *any* packet
sent so far, so loss, repetition and reordering need no action of their own: it
reaps and tests the replay window (`packet_id_reap_test`, `packet_id_test`), adds
the id and hands the packet to `fragment_incoming`, which finds or moves the
reassembly window. `fragment_wakeup` is the TTL check, `Tick` the clock. A piece
of a datagram is named by the datagram it came from, which is how `OneDatagram`
sees a mixture: what comes out is complete and of one datagram, unless a fragment
of another one with the same sequence id (`Alike`) was accepted.

**Tickets.** One process per page: `CreateNew`, `InsertId`, `InsertMessage`,
`Confirm` for a new thread, `Reply` instead of the first two for a reply,
`Answer`, `SetStatus`, `MailAnswer` for the support. The token that a reply needs
is made from the thread's id, and the answer's form takes any id, so both are
possible for every thread whose page has learnt its id (`Known`), mailed and
listed or not. The support's form page only reads; it may be old when the form is
sent, and nothing is claimed about what the support had seen. `list_tickets` is
the inner join that shows a thread to the support.

## 3. Runs

All runs check the whole state space of their instance.

| Run | Instance | Shows |
|---|---|---|
| `payment` | 2 orders, 2 users, 2 concurrent return pages, 1 crash, amounts -0.5, 0, 0.5, 10 and 10.5 GB | An order is credited at most once and only if paid; the total agrees with the calculator; it implements `OneTimeCredit`; a PAID order is credited in the end unless its request died |
| `payment_notify` | 1 order | *violated*: the acknowledged notification does not complete the order |
| `coupon` | 2 cards, 2 redemptions, the cards' numbers, a string that matches both and one that matches none, a user and a stranger, 1 crash, worth 0 and 2 | Valid cards are uncredited and the ledger follows the credit, whatever is typed; a card looked up by its own number only is credited at most as often as redemptions overlapped when it was used up, and in the end unless its redemption died |
| `coupon_twice` | 1 card, 2 redemptions | *violated*: both are credited |
| `pptp` | 2 sessions, 2 interfaces, 1 fault, receive counters up to 1 and send counters up to 3 with 2^31 = 2, limit 3, credit 2 | One open row per interface; ended sessions are charged; a session is selected for a kill only by what it or an earlier session on its interface carried; a session beyond the limit or the credit is cut, unless the credit came to cover it |
| `openvpn` | 2 sessions of one user, 2 faults, sessions of up to 4 bytes, a column that holds 3, a credit of 1 or 3, both SQL modes | Sessions are charged once plus once per fault and never too much, and what is recorded is charged; gone sessions are charged in the end; overdrawn ones are dropped if the credit is below the column's maximum and the column has not refused the traffic |
| `pppauth` | 3 pppds, 2 users, 5 options files, 1 loss | With exclusive, authoritative, column-update and a condition logins exclude each other; the status follows them; attempts are answered; marks are cleared |
| `registration` | 3 names, 2 requests, 2 bookings of ±1, 1 crash; empty table or one address ending in .254 | Addresses are distinct unless raced, the books balance but for named causes |
| `expiry` | 2 accounts, days 0..4, grace 2, cards of 2 days, extensions 0 and -1, 1 crash | Only overdue or redated accounts are suspended; nobody without a mail, and with the whole grace period after the first mail where a run was there the day after the date; who gets an eternal account; nobody stays overdue |
| `control_channel` | send window 2, receive window 4, 2 acknowledgements kept and 1 carried, 22 ids, flights of 1, 3, 1 and 1 records, 2 faults | Only what the peer has is released; a peer that takes the key into use has the other's; while a packet is missing nothing needed is refused; it implements `ReliableStream`; the negotiation completes |
| `data_channel` | window 2, 1 tick of memory, 2 reassembly buffers, 4 sequence ids, 3 fragments at most, 7 datagrams, one too long, one short, one in three fragments | No packet is accepted twice; a late packet within the window passes; a delivery is one complete datagram, unless fragments of two that are a sequence-id cycle apart were accepted; all fragments accepted means delivered, but for named disturbances; fragment sizes |
| `tickets` | 4 requests, 1 crash | A closed thread ends with the support's message unless a reply and an answer overlapped; a customer who was mailed a link has a thread the support can see |

**Bounds.** Two processes are enough for every race of the web pages and
scripts, because each race is between one reader and one writer of one row; three
pppds show that a third adds nothing. Two cards are enough for a string that
matches more than one: the card the `UPDATE` uses up and the card the `SELECT`
reads. One crash (two
for OpenVPN, where a fault is repeated by the next job) reaches every
half-finished handler, and `MaxCrashes` and `MaxFaults` bound only their number,
never their place. Byte counts are scaled: only their order relative to the
credit, the limit (3 GiB), 2^31 and 2^32 matters. In `pptp` 2^31 is 2, the limit 3
and 2^32 is 4, in the order of the code, and a session can carry 1, 3 or 4: within
the credit, beyond it with a direction that is printed as -1, and beyond the
limit. In `openvpn` the column holds 3 and a session can carry 2 or 4; of the two
credits one is below and one at the column's maximum. Likewise the grace period of
7 days is 2 in the run (and arbitrary in the proofs), long enough for a run, a day
without one and another run within it, and the model starts on the day a
trial ends. The first address ends in .254 so that the second registration
carries. In `control_channel` the second flight is longer than the send window,
so that a window fills and the sender waits for acknowledgements, and more
packets arrive than a packet can acknowledge, so that dedicated acknowledgements
occur; the windows keep the proportion of the code (4 and 8). In `data_channel`
there are as many long datagrams as it takes for the sequence ids to repeat and
more than the buffers hold, the sender's first sequence id is not the receiver's
(it is random in the code), and the clock passes both time limits. The last
datagram has the sequence id and the fragment size of the first and one fragment
more: then what comes out of a mixture need not have the length of either. Four ticket
requests are a thread, a reply, an answer, and one more of any kind.

**Fairness.** Liveness is checked under weak fairness of what the machine keeps
running: a PHP or CGI request in progress, a pppd's hooks and scripts, the cron
jobs (cron starts them for ever and nothing makes them wait). A killed pppd hangs
up. Alipay repeats a notification until it is answered with "success", hence
strong fairness of an acknowledged `Notify`. Nothing is assumed of customers,
browsers or the administrator: a redirect may never come, a session may never end
by itself, traffic may never flow. No fairness excludes a crash; crashes are
bounded, and every property says what they may cost (`lost`, `faulty`, `unpaid`).
In the control channel the event loops run (weak fairness of `tls_process`, with
its enabling condition `Pending` written out, so that a call of the other machine
does not count as an excuse), packets that are not lost arrive, and retry timers
fire (strong fairness: the peer's traffic does not stop the
clock); the handshake window may pass or not, and the number of faults is finite.

**Deadlock** is checked in every run except `control_channel`, `data_channel` and
`tickets`, where a finite negotiation, finite traffic and finitely many requests
really end.

Type invariants (`TypeOK`) are proved, not run, where the module has proofs.

## 4. Proofs

Every theorem holds for any finite or infinite set of users, orders, processes
and sessions and any bound; the assumptions are the `ASSUME`s of the component
modules (sets of numbers are numbers, `NULL` is not a value, finitely many
redemptions where a proof counts them). Each argument is
an inductive invariant whose parts are named in the proof module.

* **PaymentProofs**: `RequestInv` (what a request has seen holds of its order),
  `ExclusiveCharge` (at most one request is past `pay_transaction` per order: the
  conditional `UPDATE` lets one through), `OrderInv`. From it: `AtMostOnce`,
  `OnlyPaid`, `Stranded`, `Forward`, and `Refinement` of `OneTimeCredit` (each
  step is a voucher step or a stutter). `Quoted`: the order's total is the floor
  of the calculator's quote for every amount, by case on the discount.
* **CouponProofs**: `TableInv` (ids are distinct and in the order of insertion, so
  a new card never comes before the ones a statement has matched),
  `RedemptionInv` (from the `UPDATE` on, the first card that matches is a used
  one, although the `UPDATE` may have used up another), `CardInv` and `BlurInv`
  (a running redemption of a card that is not `blurred` was given its own number).
  `AtMostOncePerOverlap` needs `OverlapInv`: what a used card was credited, and
  the redemptions still able to credit it, are together at most the redemptions
  that stood between count and `UPDATE` when it was used up. `SerialRefinement`:
  with one process, and nothing typed that matches two cards, the page implements
  `OneTimeCredit`. Both conditions are needed (section 5).
  `Ledger` counts, too (`LedgerInv`): the credits of a card exceed its ledger
  rows by exactly the redemptions about to write one, unless one of them died.
* **PptpProofs**: `LinkInv` (a session is on at most one interface), `RowInv`
  (what row a session has in each phase of its script), `CronInv`, `ChargeInv`.
  `CutForInterface`, which is about the two selections, needs `SeenInv`: the traffic of an open row, and what the
  job is about to write, was carried on that interface, and carried bytes only
  grow.
* **OpenvpnProofs**: `ListInv` (a session missing from the list and having a row
  is over: rows are only made from lists), `FinishedInv`, `BytesInv`, `FaultInv`,
  `CleanInv` (without faults, record and charge come in pairs).
* **PppAuthProofs**: `LockInv` (from `SELECT` to commit the process has the row
  lock), `MutexInv` (of the processes that passed the `SELECT`, one).
* **RegistrationProofs**: `NewestInv` (unless raced the newest row has the
  greatest address) and the round trip of `num_to_ip` and `ip_to_num`. `Balance`
  (`BooksInv`): credit and ledger differ by the sum of what the requests in state
  `record` are about to write; that sum over a set of requests is stated by a
  witness, a sequence of partial sums along an enumeration of them, which needs no
  induction.
* **ExpiryTicketProofs**, expiry: `TodoInv` (selected accounts are still overdue
  or were redated: time only moves forward), `MovedInv`, `MailInv` (a run is shorter
  than the grace period, so what is overdue during the run had expired at its
  start, and has been mailed or is still on the list of mails) and `PunctualInv`
  (the first mail about a date that had a run the day after came by that day).
  Tickets: `KnownInv` (nobody touches a thread before the page that inserted it
  has learnt its id), `OverlapInv` (unless an answer overlapped, a thread is open
  while a customer's message for it is on its way, and still ends with the answer
  when its status is set), from which `Answers` follows, and `OwnInv` (a page that
  opens a thread works on its own and has its message there before it mails the
  link) for `Links`.
* **ChannelProofs**, data channel: for every window, time limit, traffic and order
  of arrival, `NoReplay` and `LatePass`. The window alone says too little to be
  inductive: `Covers` (the list is as long as the ids it stands for), `Remembers`
  (an accepted id is either behind the window or its entry is not UNSEEN) and
  `Explained` (conversely, a mark is the time its id was accepted, or the id is at
  or behind one that was accepted more than the time limit ago, which is what an
  expired entry means). Each is shown to survive reaping, the test and
  `packet_id_add`, whose shifts of the list are the heart of the argument.
  `OptimalSize` is arithmetic: with q = len \div aligned the rounded-up share
  still gives q + 1 fragments, for every length and limit; `Sizes` is the part of
  it the run enumerates. `Reassembly` rests on `ReassemblyInv`: the sender only
  sends `Proper` fragments (sequence id from the place of the datagram, at most
  MAX_FRAGS, LAST exactly on the last), and every buffer is `Sound`, that is, its
  pieces and its map come from accepted fragments whose sequence id is the one
  its place in the window stands for. `GetBuf` shows that moving, emptying and
  looking back into the window, around both circles, keeps that correspondence;
  it needs N_SEQ_ID to be at least twice N_FRAG_BUF (256 and 25 in the code). A
  full map of one datagram's fragments is then complete, because only its last
  fragment fills the map from its number on.
  `Reassembled` is the other direction, nothing gets lost, and rests on
  `DeliveryInv`: no fragment is sent twice (`SentOnce`) and no id accepted twice
  (which is `NoReplay`'s invariant), and every datagram that is under way, has not
  come out and is not disturbed has a buffer, at the place of its sequence id,
  that `Collects` everything accepted of it and is not younger than that. The
  heart is `GetBufKeeps`: asked for the sequence id of a datagram at most
  N_FRAG_BUF - 1 places younger, the window keeps that buffer and finds the same
  one again exactly for the datagram itself, wherever it stands on its two circles.
  `SomethingMissing` is a pigeonhole argument: while the buffer is not full, fewer
  packets of the datagram were accepted than it has fragments, so the model's
  count of what is in progress, by which it calls datagrams disturbed, agrees with
  the buffers. `WholeOut` puts both directions together.
* **ChannelProofs**, control channel: `ControlInv` has a part for each peer
  (`Local`: the stream it made is 1, 2, ..., `send_reliable` is within a window of
  its next id, what waits in `rec_reliable` is not behind the next id, only what
  was received is acknowledged, and what each key state says of the keys), one for
  the two together (`Matching`: what one received the other sent, and what one
  sent and has no longer in `send_reliable` the other received) and one for the
  packets on the network (`Genuine`: their data and acknowledgements were true
  when they were sent, and stay so). From it:
  `Released`, `Keys`, `Accepted` (a missing packet keeps the sender's window where
  it is, so at most RecSize - 1 others can be ahead of it: a pigeonhole argument)
  and `Refinement` of `ReliableStream`. Besides the shape of the flights the only
  assumption is `PidsDoNotWrap`: fewer packets in one negotiation than half the
  packet ids, 2^31. It is needed (section 5).

Some theorems state more than the runs check: type correctness, `Stranded` and
`Forward` (payments), `UncreditedCards` and `Redemptions` (coupons),
`OpenRowOfLink` and `Recorded` (PPTP), `ChargedAfterwards` (OpenVPN: only what is
over is charged), `OwnLogout` (PPTP login), `Survive` (registration: accounts are
never lost), `OptimalSize` and `WholeOut` (data channel).

Only model-checked: every liveness property (`PaidIsCredited`, `UsedIsCredited`,
the two `OverdrawnIsCut`, `GoneIsCharged`, `AttemptEnds`, `MarkIsCleared`,
`OverdueIsSuspended`, `NegotiationCompletes`), since liveness under fairness is out
of the prover's reach, and the two violations. Every safety property and every
refinement that a passing run checks is also a theorem.

## 5. What the checks found

Two statements of the repository do not hold of the code; each is a run that
TLC refutes and an entry of `findings`: the notification page completes no order,
and a card can be credited by two overlapping redemptions.

Met while modelling the business, not stated as runs:

* The coupon page matches what was typed with `LIKE`, and only its count and its
  `UPDATE` ask for an unused card (`coupon_credit.cgi:80`, `:88`, `:96`). A string
  that matches several cards can use up one card and credit another that was
  credited before, with no overlap and no crash; the used-up card then stays
  uncredited. `CreditedAtMostOncePerOverlap`, `UsedIsCredited` and
  `SerialRefinement` are therefore about cards looked up by their own number, and
  `ValidCardIsUncredited` and `LedgerFollowsCredit` about everything.
* A PPTP direction that carried 2^31 bytes or more is charged a negative amount,
  beyond 2^32 it starts over: `plugin.c:139` prints an unsigned counter with
  `"%d"`, where the manual page (`pppd-mysql.8:120`) speaks of received and
  transmitted bytes. The charge then raises the credit, and another session of the
  user that was overdrawn need not be any longer, so it is not cut. This is the
  exception of the PPTP `OverdrawnIsCut`; without it TLC finds a counterexample.
* An OpenVPN user whose credit is at or above what an `int(11)` column holds is
  never found overdrawn (`openvpn-refresh.pl:61` and `:95`), nor is a session
  whose traffic a strict server refused to store. These are the exceptions of the
  OpenVPN `OverdrawnIsCut`; without either TLC finds a counterexample.
* `mysql-exclusive` alone does not forbid concurrent connections: the lock of
  `auth-mysql.c:204` goes with the commit; it takes a condition on the status
  column as well (`ExclusiveIfConditioned`).
* 0.5 GB is priced as 0.5 and credited as 1 GB (`new-order.php:32` and the `int`
  column).
* Two PPTP sessions of one user are each compared with the whole credit
  (`update_traffic.pl:45`).

* The mail of `expire.pl` promises that charging the account delays its expiry.
  A coupon does; an Alipay payment (`transactions.php`) and the administrator's
  credit page do not, and the payment does not reactivate a suspended account.
* The same mail says that the account is closed "after 7 days" (`expire.pl:31`,
  `:42`, `:44`, and `:58` to the administrator), but the job counts from the
  expiry date, not from the mail, and mails every day: the promise is repeated up
  to the run that suspends the account minutes later. Where the first run comes
  late, died among its mails, or the administrator moved the date back, the
  first mail can come from that very run. `NoticeBeforeSuspension` is what does
  hold: the first mail is 7 days old if a run was there the day after the date.
* A card redeemed between the job's second selection and its `UPDATE` loses its
  days, and the account is disabled (`SuspendedIfOverdue` shows this is the only
  way).
* Suspension removes the expiry date, and reactivation by the administrator sets
  none: the account never expires again (`EternalOnlyByAdmin` delimits this).
* The administrator's edit form extends by 0 days by default, which gives an
  account without expiry the date of the edit.
* Two overlapping registrations get the same client address
  (`DistinctUnlessRaced` shows this is the only way).
* The listed prices of 1 and 10 GB (10 and 90 yuan) are not what
  `get_price` and `get_discount` yield (9 and 80); calculator and order agree.
* The plugin sets the status before IPCP, so the user of a login that fails
  afterwards stays marked, also when its pppd is gone.
* A support answer that closes a thread while the customer's reply is being
  stored leaves a closed thread that ends with the customer's message
  (`ClosedIsAnswered` shows that it takes this overlap). An answer sent from a
  page loaded before a complete reply closes over that reply, too, but does end
  with an answer. A thread whose page died
  before its message is in no list.

Met while modelling OpenVPN:

* A server can be `S_ACTIVE` before all records of its own key are queued: if
  they do not fit into the send window at `S_SENT_KEY` and the acknowledgements
  arrive at once, `FULL_SYNC` holds with the rest still in the TLS object. The
  negotiation still completes.
* A packet is acknowledged before it leaves the receive window. If every call of
  `tls_process` finds a retry to send it ends before it takes one out, and the
  sender's window moves past the receiver's, however large that is; then a packet
  is refused and has to be sent again. `NeededIsAccepted` is therefore about the
  case that matters, a missing packet, and there a receive window as large as the
  send window is enough (the code has 8 and 4).
* `reliable_pid_in_range2` has no lower bound. Near the wraparound of packet ids
  a retransmitted old packet is therefore refused instead of acknowledged again
  (`ssl.c:4715` says acknowledge "even if it's a replay"). With 8 ids the
  negotiation can then stop; with 2^32 ids no key lives that long.
* Fragments of two datagrams whose sequence ids are equal (256 long datagrams
  apart) can be joined if everything between them was lost within the TTL. If
  their fragments have the same size but not the same number, the result need not
  even have the length of one of them. `OneDatagram` delimits this.
* A late fragment of an older datagram can empty the whole reassembly window; so
  can the first fragment, as the receiver's window starts at 0 and the sender's
  sequence ids at random. `ReassembledUnlessDisturbed` names these cases.

## 6. Not modelled

By lines, most of the repository is OpenVPN 2.1.1, and most of that is not
modelled, so the models stand for a small part of all lines: nearly all of the
business code that changes state, and the two OpenVPN layers above. What is left:

* **OpenVPN: configuration and platform.** `options.c`, `tun.c`, `route.c`,
  `init.c`, `win32.c`, the TAP drivers and the installers parse options and call
  the operating system once at start; they keep no state that steps of several
  actors could disorder.
* **OpenVPN: sockets, event loop and management.** `socket.c`, `event.c`,
  `forward.c` and `manage.c` move bytes. They are the scheduling of
  `ControlChannel` and `DataChannel` (any order of arrival, a link that is busy)
  and the client list and kill command of `OpenvpnAccounting`.
* **OpenVPN: cryptography and compression.** OpenSSL and LZO are external: a
  packet is authentic or does not arrive.
* **OpenVPN: the rest of the tunnel.** Of the control channel: renegotiation,
  the lame-duck and the untrusted session, tls-auth, the restart after `S_ERROR`.
  Of the data channel: long-form packet ids and their file (static keys), path
  MTU adjustment. And the server's client and route tables (`multi.c`, `mroute.c`,
  `pool.c`).
* **Other vendored code.** The Perl management client, ReCaptcha, graphs,
  Alipay's signature library beyond its verdict.
* **The rest of the business.** The control panel (one update of one row),
  administrator sessions and notes, statistics and reports, static pages and
  firewall files: nothing else reads their state. The PostgreSQL plugin, which is
  not deployed.
* **Details.** Password formats and CHAP re-challenges: data and repetition of
  `Verify`. Reuse of a pid between the cron job's read and its kill. Overlapping
  refresh jobs: OpenVPN's management interface serves one connection. A kill
  command of the refresh job is taken to disconnect at once. The database never
  fails a statement except where an action says so.

## 7. Plan

1. Done: payment, coupons, PPTP and OpenVPN accounting, PPTP login,
   registration, expiry, tickets and the two channels, each checked and proved.
2. Extend: key renegotiation (two keys at a time and the lame duck), the server's
   address pool and route learning, the PostgreSQL plugin compared with
   `PppAuth`.
3. Compose: one abstract specification of usage charging refined by both
   accounting modules (as `OneTimeCredit` is by payments and coupons); payments
   with expiry, to state the promise of the expiry mail; all writers of
   `login.credit` together.
