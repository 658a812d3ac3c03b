# The shop, in TLA+

This directory models the parts of the web shop (package `de.shop`, Java EE 7
on WildFly, Hibernate 4.3, H2) in which requests, nightly jobs, asynchronous
observers and worker threads meet. It contains TLA+ modules, TLC configurations
and proofs for TLAPS. Names follow the source, so they are German.

    tlc -config MCBestellverwaltung.cfg MCBestellverwaltung.tla
    tlapm BestellverwaltungProofs.tla

## 1. The system

| Part | State it keeps | Operations that write | Who calls it |
|---|---|---|---|
| Bestellverwaltung (`BestellungService`, `BestellungResource`) | tables `Bestellung`, `Bestellposition`, `Warenkorbposition` | cart line, order from the persistent cart, order with own positions | REST, JSF (`BestellungModel`) |
| `WarenkorbRemover` | - | bulk DELETE of carts older than 30 days | timer, 3:00 |
| `BestellungObserver`, `KundeObserver` | - | send a mail | CDI event, own thread |
| Kundenverwaltung (`KundeService`, `KundeResource`, `KundeModel`, `KundeSOAP`) | tables `kunde`, `Adresse`, roles | register, change, delete, upload a file | REST, JSF, SOAP |
| `KundeRemover` | - | deletes all customers without orders and carts | timer, 2:00 |
| Uploaded files (`FileHelper`, `File`, `FileUpload`) | table `file_tbl`, a directory | store a file | REST, JSF, worker thread |
| Authentication (`AuthService`, `AuthModel`) | roles, session, security cache of the container | add and remove roles, log in and out | JSF |
| JSF session (`Warenkorb`, `ArtikelModel`, `BestellungModel`) | cart in a conversation | add, remove, order | browser |
| Artikelverwaltung (`ArtikelService`, `ArtikelResource`) | table `Artikel` | create, change | REST, JSF, browser |
| Article pages (`webapp/Angular`: `shop.js`, `factories.js`, partials) | the scopes of the controllers in the browser | search, change, create, over REST | employee |
| Lieferungen, Wartungsvertraege | one table each | INSERT | REST |
| Infrastructure (`util`) | - | exception mappers, messages, links, logging | all |

Everything shares one database. The data source is configured with
`TRANSACTION_READ_COMMITTED` (`WEB-INF/shop-ds.xml`). The resource classes are
`@Stateless`, so a REST request is one container transaction. The JSF beans are
`@Stateful`; `KundeModel` keeps an EXTENDED persistence context, that is,
entities survive from one request to the next. Against concurrent changes there
are only `@Version` (class `AbstractVersionedAuditable`), foreign keys, unique
indexes, and the row locks a DELETE takes in the database.

What is hard here, and seldom tested (there are two concurrency tests, on
customers): checks on data that another transaction changes before the commit,
the point at which the EntityManager writes, events and threads that start
before the commit, jobs that work on many customers at once. `PROJECT.json`
lists these hazards with their lines.

What makes each part correct:

- *orders and carts*: a cart line is sold at most once and only to its own
  customer, it leaves the cart in the same moment, the list of orders has no
  gaps, no order or line is orphaned, nobody waits for ever;
- *customers*: no lost update, nothing unseen is deleted, no two customers with
  one mail box, nobody without an address;
- *uploaded files*: the copy on disk becomes what the database holds;
- *roles*: what two administrators change adds up; the container knows the
  roles that are stored;
- *articles*: none is incomplete, and nobody changes of an article what he has
  not been shown; the page shows what was asked for last;
- *order dialogue*: a cart is ordered once, for the one who has filled it, at
  the prices he has seen.

## 2. The modules

| Module | Contents |
|---|---|
| `Bestellverwaltung` | orders, carts, deletion of customers, the two nightly jobs and the mail |
| `Warenkorbzusage` | abstract specification: the life cycle of a cart line |
| `BestellverwaltungProofs` | theorems about `Bestellverwaltung` |
| `WarenkorbzusageProofs` | `Bestellverwaltung` implements `Warenkorbzusage` |
| `Kundenverwaltung` | registration, change and deletion with optimistic locking |
| `KundenverwaltungProofs` | theorems about `Kundenverwaltung` |
| `Dateiablage` | the file of a customer: upload, worker thread, pages, disk |
| `Dateibeobachtung` | extends `Dateiablage` by an observer of what has happened so far |
| `DateiablageProofs` | theorems about `Dateiablage` and `Dateibeobachtung` |
| `Positionsabgleich` | how a REST order gets its articles |
| `PositionsabgleichProofs` | theorems about `Positionsabgleich` |
| `Rollenverwaltung` | the role editor, and the security cache of the container |
| `RollenverwaltungProofs` | theorems about `Rollenverwaltung` |
| `Artikelverwaltung` | the table of articles and the PUT and POST requests that write it |
| `Artikelpflege` | extends `Artikelverwaltung`: the article pages in the browser |
| `ArtikelpflegeProofs` | theorems about `Artikelverwaltung` and `Artikelpflege` |
| `Bestelldialog` | extends `Artikelverwaltung`: login, conversations, carts and orders of one browser |
| `BestelldialogProofs` | theorems about `Bestelldialog` |
| `MCBestellverwaltung`, `MCKundenverwaltung`, `MCPositionsabgleich`, `MCDateiablage`, `MCDateien` | constants and bounds for TLC |
| `MCSitzungen` | `Rollenverwaltung`, `Artikelpflege` and `Bestelldialog` side by side |

The first two models share the table of customers in the program. `Bestellverwaltung`
reduces a customer to his existence and his version and looks at what hangs on
him; `Kundenverwaltung` reduces the orders to nothing and looks at his columns.

### Bestellverwaltung

*State.* `kunden`, `version`, `warenkorb`, `aktualisiert`, `bestellungen` are
the committed rows. `pc`, `tx`, `gesperrt` are the transactions: how far each
has come, what it has read and built, the rows it has deleted but not
committed. `heute` is the date, `mailAuftraege` and `gesendet` are the work of
the observer. The columns of a cart line or an order that never change
(customer, positions, index in the list) are read from `tx` of the request that
wrote it: a request writes at most one row and its name is the id of that row.

*Actions.*

| Action | Code |
|---|---|
| `LiesKunde` | `findKundeByUserName`, `findKundeById` at the start of a request |
| `CreateWarenkorbposition`, `VerwerfeWarenkorbposition` | `BestellungService.createWarenkorbposition` and its commit |
| `LiesPositionen`, `CreateBestellung`, `LeereWarenkorb`, `CommitBestellung`, `VerwerfeBestellung` | `BestellungService.createBestellung`: SELECT of the cart, persist and event, bulk DELETE, commit or `OptimisticLockException` |
| `LiesZuLoeschenden`, `CommitLoeschen`, `VerwerfeLoeschen` | `KundeService.deleteKundeById` |
| `SucheKunden`, `PruefeKunden` | `KundeRemover`, which ends in the same commit |
| `DeleteAlteWarenkoerbe`, `CommitAlteWarenkoerbe` | `WarenkorbRemover` |
| `OnCreateBestellung` | `BestellungObserver`, with or without success |
| `Abbruch` | a transaction fails at any point: lock timeout, lost connection, crash |
| `NaechsterTag` | time |

*Assumptions on the surroundings* (external in the map). A read sees the rows
committed when it starts. Hibernate writes what it has collected at the commit
and there compares the versions of changed entities; a flush a little earlier
with the locks it takes allows fewer interleavings, not more. Row locks of a
DELETE are taken in one step; H2, which locks more coarsely, allows fewer
interleavings. The collection `AbstractKunde.bestellungen` is owned by the
customer (`@JoinColumn`), so a new order increments his version, and a cart line
does not. The timers are modelled as authorised: `deleteKunde` is restricted to
administrators and `KundeRemover` has no role; in a container that refuses the
call the job does nothing, which all the properties allow.

*Left out.* Which articles a request names and whether they exist: a request
that fails before it touches the database leaves no trace. The loop of
`PruefeKunden` is one step; its comment says why nothing is lost. A request is
sent once; a retry is another request.

*Properties.*

| Property | Says |
|---|---|
| `NurEinmalBestellt` | two orders never share a cart line |
| `BestellteSindGeleert` | what is ordered is in no cart |
| `LueckenloseListe` | the list of orders has the indices 0, 1, 2, ... |
| `KeineWaisen` | orders and cart lines keep their customer |
| `NurBerechtigtGeleert` | a line goes only with an order of its own customer, or because it is still old at the commit |
| `KeinStillstand` | a request that holds row locks can go on; one that cannot waits for another that holds a lock on the rows it deletes |
| `ErfuelltZusage` | all this implements `Warenkorbzusage` |
| `JedeAnfrageEndet` | waiting for locks ends |
| `GeleerteSindBestellt` | does not hold, see section 4 |
| `MailNurFuerBestellung` | does not hold, see section 4 |

`KeinStillstand` is about `KannWeiter`, the guards of the actions in `Schritt`
once more, so that it can be proved without ENABLED. What it says holds under the
assumption above that a commit writes in one step: only the locks of the bulk
DELETEs are kept from one step to another.

*Refinement.* `Zusage` maps a line to "bestellt" as soon as a committed order
holds it, to "offen" while it is in the cart, to "entfernt" when it was
committed and is in neither. One case deserves attention and is why
`Bestellbar` contains removed lines: `WarenkorbRemover` may delete an old line
after an order has read it; the order is committed with it all the same.

*Fairness* (`FairSpec`). Weak fairness of `Schritt(r)`: the thread of a request
that has begun goes on when it can, and a DELETE that waits gets its locks once
they are free and stay free. Weak fairness of `OnCreateBestellung(r)`: the pool
of asynchronous EJBs works. No request has to come in, no transaction has to
fail, no day has to pass. That is what the container does: it schedules threads,
and its transaction timeout is not needed for the property.

### Kundenverwaltung

*State.* `kunden`, `zeile` are the table of customers (contents, here name and
e-mail, and version), `adressen`, `adresse` the table of addresses, which has
versions of its own; `pc`, `tx` are the requests. An e-mail is a pair: a mail
box and one of the ways to write it, because the query compares
`UPPER(email)` and the unique index compares exactly.

*Actions.*

| Action | Code |
|---|---|
| `Registrieren`, `CreateKunde`, `VerwerfeCreateKunde` | `KundeService.createKunde`, called by REST, JSF and SOAP |
| `FindKundeById` | GET, or `KundeModel.findKundeById`: the copy a change starts from |
| `UpdateRest` | `KundeResource.updateKunde` up to the call of the service |
| `UpdateJsf` | `KundeModel.update` up to the call of the service |
| `PruefeGeloescht`, `PruefeEmail`, `Merge`, `CommitUpdate`, `VerwerfeUpdate` | `KundeService.updateKunde` |
| `DeleteKundeById`, `CommitDelete`, `VerwerfeDelete` | `KundeService.deleteKundeById` |
| `Abbruch` | rollback at any point; a user who never sends the form |

The difference between the two front ends is the address. `updateKunde`
detaches the customer, so that merge compares the version the client has sent,
but the address stays managed. Over REST it was read at the start of the same
transaction, and assigning a version to a managed entity
(`Adresse.setValues`) does not change the version Hibernate compares. In JSF it
was loaded into the extended context together with the customer.

*Assumptions.* Hibernate 4.3 takes a detached entity whose row is gone for a new
one; Bean Validation runs before each INSERT and UPDATE. An entity that has not
changed is not written.

*Left out.* Version increments by orders, roles and files (they only make more
updates fail), the mail to the marketing department (the same pattern as for
orders), the hash of the password, validation of single fields.

*Properties.*

| Property | Says |
|---|---|
| `KundeNichtUeberschrieben` | whoever overwrites a customer has seen exactly what he overwrites |
| `JsfAdresseNichtUeberschrieben` | the same for the address, on the JSF way |
| `NurGesehenesGeloescht` | a deletion takes away nothing newer than what it has looked at |
| `JederKundeHatAdresse` | also when a deletion is committed between the find and the merge of an update: merge then makes a new customer without address, and it is only the constraint on the `@Transient` field `agbAkzeptiert` that keeps it out |
| `EmailEindeutig` | does not hold, see section 4 |
| `AdresseNichtUeberschrieben` | does not hold, see section 4 |

### Dateiablage

*State.* `zeile`, `version` are the row of one customer's file; `platte` is the
directory, one place for each extension, because the file name is made of the
class, the id and the extension. `pc`, `objekt`, `gelesen` are the requests and
their entity `File`; `ablage` is how far the call of `FileHelper.store` has come
that belongs to a request, in its own thread for an upload. Bytes are
represented by the request that uploaded them. `jetzt` is the clock.

*Actions.*

| Action | Code |
|---|---|
| `VerwerfeTyp`, `SetFile` | `KundeService.setFile`, which starts the worker thread |
| `Flush`, `CommitFile`, `VerwerfeFile` | the EntityManager dates and writes the entity; commit; rollback |
| `LadeKunde`, `GetFilename` | `KundeModel`: load a customer, render the page |
| `Ueberspringe`, `Ersetze` | the decision of `FileHelper.store` |
| `Loesche`, `LegeAn`, `SchonAngelegt`, `Schreibe`, `Fehlschlag` | `Files.copy` with `REPLACE_EXISTING` |

The worker thread has the entity itself, not a copy: what it sees as the date
depends on whether it runs before or after the flush. If the entity is detached
(a container may hand `FileUpload` such a customer), the thread always sees the
old date, which is the case that it runs before.

*Assumptions.* The directory is on a file system on which an open file can be
deleted and a new file gets a new creation time. An upload that reads the
customer and writes the file is one transaction.

*Specifications.* In `Spec` everything interleaves and anything may fail. In
`GeordnetSpec` nothing fails, and an upload begins only when all threads have
copied and all pages that have loaded the file are rendered (`Nacheinander`);
pages begin as soon as it is committed, though its worker thread may still copy.
`Dateibeobachtung` has the behaviours of `Spec` and an observer, `ungestoert`,
which is true as long as the steps were those of `GeordnetSpec` and no upload has
begun before the last copy was older than the tolerance (`Geduldig`).

*Properties.* `KopieVollstaendig`: threads that copy one file at the same time
leave a complete copy. `AktuellSolangeUngestoert`: as long as a behaviour is
undisturbed, a copy that the next page accepts holds the bytes of the row
(`AblageAktuell`). Without the condition it is false, and this is what is worth
knowing about it: within the tolerance it fails by the run in section 4; with a
rollback after the worker thread has written, with an I/O error in the middle,
or with a page that still has the old entity, the wrong copy is younger than the
row as well and stays.

### Positionsabgleich

*State.* One call of `BestellungResource.bestellen`. `uris` is what the client
has sent: for each position the number at the end of its URI, or `Ohne` if there
is none. `artikelIds`, `gefundeneArtikel`, `i` are the local variables of the
method; `gelesen` is the place of the stream; `artikel` is what the positions
get, `Ohne` for one that is eliminated.

*Actions.* `LiesUri`, `UebergeheUri` are the first pass; `KeineArtikelId`,
`IdsGelesen` what follows it; `FindArtikelByIds`, `KeineGefunden` the query with
its `@Size` on the result; `Zuordnen`, `IndexZuGross` the second pass;
`CreateBestellung` the end, with the `@Size` of the entity. What happens then is
the request "direkt" of `Bestellverwaltung`, which abstracts from articles.

*Properties.* The reference definition is `Soll`: each position has the article
of its own URI, or is dropped. `ArtikelPasst`: an order that is created
satisfies it. `AntwortGenau`: a request is turned away if no URI names an
article, fails if one does and another has no number, and is created otherwise;
in particular (`VollstaendigeBestellt`) one whose URIs all name articles is
created. `NieLeer`: eliminating positions never leaves none.
`UngueltigeNichtBeruecksichtigt` does not hold, see section 4. It is worth
noticing why `ArtikelPasst` holds in spite of that: behind a URI without number
the articles are shifted, but then the index is bound to run out before the
order is created.

*Left out.* Parsing of the URI; the client is not told more than the status.

### Rollenverwaltung

*State.* `rollenKunden`, `rollen`, `rollenVersion` are the committed rows of
`kunde` and `kunde_rolle`. `bean` is what the session bean `AuthModel` remembers
of the page it has opened (`kundeId`, `ausgewaehlteRollenOrig`). `tx` is the
transaction of `updateRollen`: the two lists it has computed, the roles it has
loaded and what it has made of them. `gecacht`, `cache` are the security cache,
`anmeldung` a login that has read its roles and not stored them yet.

*Actions.*

| Action | Code |
|---|---|
| `FindRollenByUsername`, `FindRollenOhneKunde` | `AuthModel.findRollenByUsername` |
| `UpdateRollen` | `AuthModel.updateRollen` up to its first call; what the page sends is arbitrary |
| `AddRollen`, `OhneNeueRollen`, `RemoveRollen`, `OhneAlteRollen` | `AuthService.addRollen`, `removeRollen`, each with `flushSecurityCache` |
| `CommitRollen`, `OhneAenderung`, `VerwerfeRollen`, `AbbruchRollen` | the commit, or why there is none |
| `LoescheKunde` | `KundeService.deleteKundeById`, as far as roles are concerned |
| `LiesAnmeldung`, `FuelleCache` | a login the cache has no entry for (external) |

*Properties.* `AenderungAddiertSich`: a commit changes the stored roles by
exactly the difference between what the page showed and what it sends, also when
the page is old or the bean meanwhile belongs to another customer's page. That
needs the difference (`updateRollen`), one managed object for both calls, and the
version. `CacheAktuell`: an entry is right unless it comes from a login that
overlapped with a change between its flush and its commit. The exception is
real: `AuthService` flushes inside the transaction, such an entry is the old
one, and nobody flushes it afterwards.

*Assumptions.* A changed `@ElementCollection` increments the version of its
owner. Another transaction that increments the version (an order) only makes
more changes of roles fail, and is left out. `MaxVersion` bounds the number of
changes.

### Artikelverwaltung and Artikelpflege

*State.* `vorhanden`, `zeile` are the table, `put` the PUT requests on their way
through `ArtikelResource.updateArtikel`. In the browser, `get` are the GET
requests, each with the object that AngularJS has returned for it; `anzeige` is
the one the search page shows, `maske` the scopes of the pages that change an
article, `aktiv` the one that is open.

*Actions.*

| Action | Code |
|---|---|
| `UpdateArtikel`, `VerwerfePut`, `CommitPut`, `OhneUnterschied`, `KonfliktPut` | `ArtikelResource.updateArtikel`, `ArtikelService.updateArtikel` and the commit |
| `CreateArtikel` | `ArtikelService.createArtikel` |
| `Search`, `EmpfangeSuche` | `alleArtikelController.search` and its answer |
| `EditArtikel`, `EmpfangeShow` | `editArtikel`, which opens `artikelAendernController`, and the answer to its `show` |
| `Tippe` | `ng-model` of the form |
| `UpdateKlick`, `EmpfangeUpdate` | `updateArtikel`: GET first, and PUT in the callback |
| `Cancel` | `cancel`, or any other link |
| `AnlegenKlick` | `artikelAnlegenController.createArtikel` |
| `FindArtikelById`, `GetFehler` | the server answers a GET, or does not |
| `Aussondern` | another client of the REST interface |

*Assumptions.* `$resource` returns an empty object and copies the answer into it
(`angular-resource.js`; `index.html` loads version 1.0.7 from a server, the copy
in the repository does the same). A callback runs whether or not the page is
still open, and reads the scope it was created in.

*Properties.* `AnzeigeGehoertZurSuche`: whatever the order of the answers, the
page shows the article searched for last. `NieUnvollstaendig`: no article is
stored without name or price, although the form can be sent before its values
have arrived; what prevents it is the validation on the server alone.
`AusgesondertBleibt`: the form does not reset the column it does not show,
because `updateArtikel` fetches the article again right before. The version does
not help there: `setValues` assigns it to a managed object (section 4,
`AdresseNichtUeberschrieben`, is the same mistake), so the property is restricted
to forms that still have the version of the row.

*Left out.* The length of the name, the digits of the price, the links in the
answers; the page for customers, whose search is like that for articles.

### Bestelldialog

*State.* One browser session: `principal` is the login the container knows,
`user` the field of `AuthModel`, `kundeLoggedIn` the session-scoped object its
producer has made. In it conversations: `gespraech`, `verfuegbareArtikel` of
`ArtikelModel` (`geladen`: whether it has been read), `positionen` of `Warenkorb`,
and a request `bestellen` on its way (`lauf`). `bestellungen` are the orders a
conversation has led to; `erwartet` and `besitzer` observe what the customer has
seen and who he is.

*Actions.*

| Action | Code |
|---|---|
| `Login`, `LoginFehler`, `Logout` | `AuthModel.login`, `reset`, `logout` |
| `SelectArtikel` | `ArtikelModel.beginConversation`, `selectArtikel` |
| `Add`, `SetAnzahl`, `RemovePosition` | `Warenkorb.add` (both), the input field of the cart, `Warenkorb.remove` |
| `CreateArtikelImDialog` | `ArtikelModel.createArtikel`, which ends the conversation |
| `Zeitablauf` | the timeout of the conversation |
| `Bestellen`, `CreateBestellung`, `OhneBestellung`, `AbbruchBestellen` | `BestellungModel.bestellen`: up to the order, the order, a failure behind or before `endConversation` |
| `PutVonAussen` and the steps of `Artikelverwaltung` | articles change meanwhile |

The order itself is one action here; what it does in the database is the
request "direkt" of `Bestellverwaltung`.

*Assumptions* (external). CDI lets one request at a time into a conversation,
destroys its beans at the end of the request that ends it, and with the session.
A session-scoped producer is called once, at the first use.

*Properties.* `WarenkorbNurEinmalBestellt`: a conversation leads to one order,
however often the button is pressed. `NurEigeneBestellung`: a cart filled by a
customer who was logged in is ordered for him only, although cart and produced
customer are kept in a session that several people may use one after the other;
`logout` must invalidate it. `GesamtbetragWieErwartet`: the sum of an order is
what its pieces cost when they were put into the cart. `Artikel.equals` compares
the price; otherwise a piece added after a change of price would be counted with
the old one. `DialogIInv` has two halves: `AblaufIInv`, who shops and what becomes
of the carts, and `KostenIInv`, what the positions cost. Sums and filters over
positions are recursive functions on their numbers (`Teilbetrag`, `Gefiltert`), so
that they can be reasoned about.

*Left out.* A cart filled by a guest belongs to whoever orders it, which is
intended. A failed order leaves no cart (`OhneBestellung`); nothing in the code
promises one. Two articles with the same name and price count as one.

## 3. What TLC checks

| Run | Module, bounds | Shows |
|---|---|---|
| `MCBestellverwaltung.cfg` | 2 customers, one an administrator, 4 requests, limit 0 days, days 0..1 | types, `IInv`, `NurEinmalBestellt`, `BestellteSindGeleert`, `LueckenloseListe`, `KeineWaisen`, `NurBerechtigtGeleert`, `KeinStillstand` |
| `MCBestellverwaltungLive.cfg` | 2 customers, 3 requests numbered by their kinds, days 0..1 | `JedeAnfrageEndet` under `FairSpec`, refinement of `Warenkorbzusage` |
| `MCVerloreneZeile.cfg`, `MCMail.cfg` | 1 customer, 3 requests | counterexamples |
| `MCKundenverwaltung.cfg` | 1 customer, 3 requests, 2 mail boxes, 2 names, 3 addresses | types, `IInv`, `JederKundeHatAdresse`, `KundeNichtUeberschrieben`, `JsfAdresseNichtUeberschrieben`, `NurGesehenesGeloescht` |
| `MCEmail.cfg`, `MCAdresse.cfg` | 1 customer, 2 requests | counterexamples |
| `MCDateien.cfg` | 3 requests, types JPEG, PNG and WAV, tolerance 1, clock 0..2, rollbacks and I/O errors; a second extension only while undisturbed | types, `IInv`, `UngestoertIInv`, `KopieVollstaendig`, `AktuellSolangeUngestoert` |
| `MCToleranz.cfg` | 3 requests, tolerance 1 | counterexample |
| `MCPositionsabgleich.cfg` | orders of 1..4 positions, 2 articles, 1 number without article | types, `IInv`, `ArtikelPasst`, `AntwortGenau`, `NieLeer` |
| `MCUngueltigeUri.cfg` | orders of 1..2 positions | counterexample |
| `MCSitzungen.cfg`, part "rollen" | 1 customer, 2 roles, 2 administrators, 1 login, 2 changes | types, `RollenIInv`, `AenderungAddiertSich`, `CacheAktuell` |
| part "pflege" | 2 articles, 1 name, 1 price, 2 GET, 2 PUT, 1 form | types, `PflegeIInv`, `NieUnvollstaendig`, `AnzeigeGehoertZurSuche`, `AusgesondertBleibt` |
| part "dialog" | 1 article, 2 prices, 1 PUT, 2 customers, 2 conversations, 2 positions, 2 pieces | types, `DialogIInv`, `GesamtbetragWieErwartet`, `WarenkorbNurEinmalBestellt`, `NurEigeneBestellung` |

*Why the bounds are enough to meet the cases.* Two competing orders need two
cart lines to differ in what they have read, which makes four requests. An
orphan needs a customer, a deletion and an order or a line: three. The age of a
cart needs two days around the limit, whose value does not matter otherwise. The
second customer is there for what an order must not do to others; the runs with
counterexamples need only one. Four positions allow a URI without number before,
between and after others, and an article twice. A lost update needs two changes
of one customer and a third request that deletes or registers in between; a lost
address needs an address that changes twice to something new, hence three. A
copy on disk is endangered by two threads besides the one that made it; a stale
one needs two uploads and two pages, and a clock that passes the tolerance
twice. Requests are interchangeable, and so are the articles of
`Positionsabgleich` and the addresses other than the first, so their
permutations are a symmetry of the safety runs; the runs with a counterexample do
without it. So does the liveness run, where TLC does not allow it: there
requests have numbers, and one of a later kind has a higher number
(`NachArtNumeriert`), which leaves out only behaviours that differ from others by
the names of requests. As a number that is left may then fit no kind that can
begin, the run may stop when nobody is on the way (`KeineAnfrageMehr`). No bound is needed on versions there: each
request increments one at most once. `MaxTag`, `MaxZeit`, `MaxVersion`,
`MaxPositionen` and `MaxAnzahl` are the bounds in guards. Deadlock is checked in
these runs: `Ende` and `Feierabend` let a run stop only when all requests are
answered.

`MCSitzungen` is three instances in one run: `teil` chooses one at the beginning,
and the variables of the others stand still, so its states are the sum and not
the product of theirs. The three share no rows but those of the articles, and
there `Artikelpflege` and `Bestelldialog` each have clients that change them.
Instead of symmetry, which TLC does not allow with numbers that are computed
with, requests, conversations, customers and articles are taken in the order of
their numbers (`DerReiheNach`). Two administrators, one of whom commits while the
other is between load and commit, are what a lost change of a role needs; a
login that reads before and stores after a commit is what a stale cache needs.
Two GET requests are two searches whose answers cross, or the `show` and the
`update` of one form; two PUT requests are the form's and another client's. A
price that changes between two pieces of one article needs one article, one PUT
and two pieces; two tabs of one customer, or two customers one after the other,
need two conversations. The parts stop when their requests are used up, because
these are numbered: hence `CHECK_DEADLOCK FALSE`.

Each property of a passing run is also checked against a change of the model
that a plausible bug in the code would make (the definitions named
`..._Fehler` or `..._Voraus`): no version check, a forgotten WHERE clause, an age compared with
`<=`, a lock that is not released, and the like. TLC finds each of them.

## 4. What the code does not keep

- `GeleerteSindBestellt`: `createBestellung(String)` orders the lines its SELECT
  has found and deletes the lines its DELETE finds. A line added in another tab
  in between disappears from the cart and is in no order.
- `MailNurFuerBestellung`: the event is fired before the commit; a second order
  that fails with 409 has sent its mail.
- `EmailEindeutig`: two concurrent registrations, one in upper and one in lower
  case, both succeed; from then on every search for that mail box fails with a
  `NonUniqueResultException`.
- `AdresseNichtUeberschrieben`: two clients GET a customer, both PUT another
  address, the second one overwrites the first. The concurrency test expects
  409, but it changes the name only.
- `AblageAktuell`: a second upload within the tolerance of one second is never
  written to disk, neither by its thread nor by a page; the old file is
  delivered from then on.
- `UngueltigeNichtBeruecksichtigt`: a URI without a number is to be ignored, but
  the order fails with an `IndexOutOfBoundsException`, because the list of ids is
  then shorter than the list of positions.

Not a run, but visible in `VerwerfeTyp`: `FileHelper.extensionen` lists `wav` as
admissible, `MimeType.getExtension` throws for it.

## 5. What is proved

For any sets of customers, requests and values, any age limit and any number of
days. The only assumptions are those on the constants of a module, named
`KonstantenAnnahme`, `RollenAnnahme`, `ArtikelAnnahme`, `PflegeAnnahme` and
`DialogAnnahme`: names are distinct, sets finite or not empty where it matters.

*BestellverwaltungProofs.* None of the safety properties is inductive. That two
orders never share a line follows from what a matching version guarantees to an
order on its way (`VersionInv`): as long as the version it has read is the
current one, none of its lines is in another order, and its index is the end of
the list. That the lines have left the cart follows from what the DELETE has
locked (`GeleertInv`, `SperrenInv`). `ZeilenInv` and `PositionenInv` say who
wrote which row. `IInv` is their conjunction with the properties. There is one
lemma for each action; steps that begin a transaction share `BeginnIInv`.
Results: `Induktion`, `TypKorrekt`, `KeinDoppelverkauf`, `GeleertBleibtGeleert`,
`ListeLueckenlos`, `NieVerwaist`, and the action property `LeerenBerechtigt`.

Of `JedeAnfrageEndet`, which is a matter of fairness, two parts are not, and these
are proved. `NiemandWartetAufWartende`: `KeinStillstand` holds, because row locks
belong to requests whose next step needs none (`SperrenInv`) and the only other
request that can be held up is an order before its DELETE; which stages a request
can be at follows from its kind (`StufenInv`, preserved by `StufenSchritt`).
`JederSchrittZaehlt`: each step of a request raises its `Rang`, which goes from 0
to 5, and no one else changes it.

*WarenkorbzusageProofs.* A line is mapped to its status, its owner and the order it
is in; because of `NurEinmalBestellt` this order is determined
(`BestellungEindeutig`). The commit of a cart line maps to `Ablegen`; that of an
order to `Bestellen`, or, if it has no line of the cart, to `Entfernen` or to
nothing; that of the nightly job to `Entfernen` or to nothing. All other steps
stutter, which one lemma, `Unsichtbar`, shows for all of them. That an order
takes only lines no other has is `VersionInv` again. Result: `ZusageErfuellt`,
the implication `Spec => ErfuelltZusage`.

*KundenverwaltungProofs.* The core is `KopieInv`: a copy never has a higher
version than its row, and with the same version it has the same contents.
`HerkunftInv` is needed because a request inserts a row under its own name: no
one has a copy of that row before. Steps that only read share the lemma
`NurGelesen`, steps that write share `Geschrieben`. Results: `Induktion`,
`TypKorrekt`, `NieOhneAdresse`, and the action properties
`KeinVerlorenesUpdate`, `KeineVerloreneAdresse`, `LoeschenGesehen`, and
`GeloeschtKommtNichtWieder`, that an id whose customer is gone stays unused.

*DateiablageProofs.* `KopieVollstaendig` looks at a moment when nobody copies;
the invariant has to speak of all moments. An incomplete copy has a creator who
is still writing or has failed (`UnfertigesHatSchreiber`); a copy that somebody
has dealt with and that is missing was deleted by a thread that has yet to
create it or has failed (`FehlendesHatLoescher`). Results: `Induktion`,
`TypKorrekt`, `KopieImmerVollstaendig`, for any number of uploads, pages and threads.

`AktuellSolangeUngestoert` compares a copy with the row at a moment of rest. The
invariant behind it (`RuhigIInv`) has to know, at every moment, what the row is
going to be dated: an upload that is not committed is alone (`SchreiberAllein`),
whoever copies after a commit has what the row holds (`KopiererHabenZeile`), and
each copy has the right bytes or will be seen to be older than the row
(`KopienStimmen`, with `Datum` for a date that is set by the flush). `RuhigeFolge`
shows that a calm step keeps it. Results: `UngestoertInduktion`,
`UngestoertAktuell` for all behaviours as long as they are calm, and
`GeduldigAktuell`: `GeordnetSpec` keeps `AblageAktuell` if no upload begins within
the tolerance, so that the counterexample of section 4 has no other cause.

*PositionsabgleichProofs.* `GleicherPlatz` ties the two lists together: as long
as they are equally long, they are equal; and a list that has fallen behind
never catches up. `Gesammelt` says that the second list has the numbers of the
first and no others, `Zugeordnet` the same of what has been matched, `Ausgang` how
a request can have ended. Results for orders of any length: `Induktion`,
`TypKorrekt`, `ImmerPassend`, `AusgangBestimmt` (and `NieAbgewiesen`, which follows
from it), `NieOhnePosition`. `AusgangBestimmt` also says how far the bug of section
4 goes: no order with a URI without number is ever created, wherever that URI
stands.

*RollenverwaltungProofs.* `TxStimmt` says what a transaction has made of the
roles it has loaded, `VersionStimmt` that a version which is still current was
read together with roles which are; these two give `AenderungenAddierenSich` for
each commit. `AnmeldungStimmt` and `CacheStimmt` follow a login from its SELECT
to its entry, unless a change has touched it. Results: `RollenInduktion`,
`RollenTypen`, `CacheImmerAktuell`, `AenderungenAddierenSich`, for any number of
customers, roles, administrators and logins.

*ArtikelpflegeProofs.* The core is `Stimmt`: values with the version of the row
agree with it about `ausgesondert`; it holds of what a GET has brought
(`AntwortStimmt`) and of what a form has sent (`FormularStimmt`), and a commit
that changes the row also changes its version. Results: `PflegeInduktion`,
`PflegeTypen`, `ImmerVollstaendig`, `AnzeigeImmerRichtig`,
`AusgesondertBleibtImmer`.

*BestelldialogProofs.* `SitzungStimmt` and `KorbStimmt`: application, container
and carts agree about the customer, because `Logout` takes the session with it;
`LaufStimmt` and `BestellungStimmt`: an order under way has its owner, is the
first of its conversation, and ends it.

`GesamtbetragWieErwartet` needs that at every moment `erwartet` is the sum of the
cart (`KorbKostet`) and then of the request that orders (`LaufKostet`), and that
prices are numbers, which is a fact about the rows of `Artikelverwaltung`
(`ArtikelStimmen`). What `Add`, the input field and `remove` do to the sum are lemmas
about sequences of any length: `GesamtbetragAppend`, `GesamtbetragExcept`,
`GesamtbetragRemoveAt`, and `NeuePositionenKosten` for the filter that drops
positions without pieces. They need induction over the length. The library's
induction theorems take an operator as a parameter, so `InduktionBis` derives
what is needed, for the set of the numbers for which a statement fails, from
the least element of that set (`KleinstesElement`), and `RekursionExistiert` the
existence of the recursive functions. Results: `DialogInduktion`,
`DialogInvariante`, `DialogTypen`, `WieGesehenBestellt`, `NurEinmalBestellt`,
`ImmerEigeneBestellung`.

*Only model-checked.* `JedeAnfrageEndet`: liveness under fairness is beyond TLAPS
here. All other properties of the passing runs are proved.

## 6. Plan and what is not modelled

Done, in this order: `Bestellverwaltung`, the core of the shop; the locking of
customers, which everything else relies on; the uploaded files;
`Positionsabgleich`; roles and the security cache; articles and their pages in
the browser; the order dialogue.

Next: the choice of a language in `util.rest.Messages` as a pure algorithm.

*Not modelled.*

- Lieferungen and Wartungsvertraege: one query and one INSERT each, with nothing
  to order or to lose.
- The session bean `FileUpload` in front of `Dateiablage`: it keeps bytes and
  customer between two requests, and a TODO in the class admits that the
  conversation is missing; but the pages that would call it are not in the
  repository, so the order of its calls is unknown. `SetFile` begins with its
  last one, `setFile`.
- REST infrastructure, web utilities, logging, configuration: no state of the
  shop.
- Password hashing, captcha, mail transport: library code.
- Vendored JavaScript (AngularJS, Bootstrap and Angular UI below
  `webapp/Angular`, more than 29000 lines): third-party releases, of which the
  shop's own 125 lines in `shop.js` and `factories.js` use `$resource`, `$location` and
  `ng-model`. What these do is modelled where the shop relies on it; most of the
  copies are not even loaded. By number of lines they outweigh all other
  JavaScript of the repository, so that of the JavaScript alone only a small
  share is modelled, whereas the two files the shop has written itself are
  modelled but for the customer search.
