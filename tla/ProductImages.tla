--------------------------- MODULE ProductImages ---------------------------
(***************************************************************************)
(* Product images: a row of product_images and an object in S3, which no   *)
(* transaction joins. The calls are those of Catalog. A request to S3 or   *)
(* to the database may fail, and may have had its effect all the same.     *)
(***************************************************************************)
EXTENDS Catalog

CONSTANTS
  Images,      \* an image and its s3_key, a fresh random name for each upload
  MaxPosition  \* bound: positions a manager asks for

ASSUME ImagesAssumption ==
  /\ Images \subseteq Nat \ {0}
  /\ IsFiniteSet(Images)
  /\ MaxPosition \in Nat

VARIABLES
  image,   \* product_images
  objects  \* keys with an object in the bucket

imageTables == <<image, objects>>

NoImage == [state |-> Unused, product |-> 0, position |-> 0]
ImageRows == {NoImage} \cup [state : {"live", Gone}, product : Products, position : Nat]
ImagesOf(p) == {i \in Images : image[i].state = "live" /\ image[i].product = p}

S3Fault(r) == [r EXCEPT !.excuse = @ \cup {"s3"}]
See(c, r) == Query(c, r) /\ UNCHANGED imageTables

WriteImage(c, r, i, row) ==
  /\ image' = [image EXCEPT ![i] = row]
  /\ UNCHANGED <<tables, objects>>
  /\ Stales(c, r)

\* A request to S3: it succeeds, or fails with or without its effect.
AskS3(c, then, otherwise, effect) ==
  /\ UNCHANGED <<tables, image>>
  /\ \/ objects' = effect /\ call' = [call EXCEPT ![c] = then]
     \/ /\ objects' \in {effect, objects}
        /\ call' = [call EXCEPT ![c] = S3Fault(otherwise)]

\* s3Key has a random part: no upload ever had this key.
FreshKeys == Images \ ({call[d].arg.key : d \in {e \in Calls : call[e].op = "uploadImage"}}
                       \cup {i \in Images : image[i].state # Unused})

upload(c) ==
  /\ Asked(c, "uploadImage")
  /\ \E u \in Callers(ProductsController.uploadImage), p \in Products, large \in BOOLEAN :
       LET r == Request(u, "uploadImage", [product |-> p, position |-> 0,
                                           key |-> Min(FreshKeys)])
       IN /\ FreshKeys # {}
          /\ See(c, CASE ~ProductExists(p) -> NotFound(r)
                      [] ProductExists(p) /\ large -> Ends(r, "image-too-large")
                      [] OTHER -> Goes(r, "put"))

putObject(c) ==
  LET r == call[c]
  IN /\ At(c, "uploadImage", "put")
     /\ AskS3(c, Goes(r, "position"), Fails(r), objects \cup {r.arg.key})

\* Mutant of NextPosition: the count of the images.
CountOfImages(p) == Cardinality(ImagesOf(p))

\* _max.position ?? -1, plus one.
NextPosition(p) == Max({image[i].position : i \in ImagesOf(p)} \cup {-1}) + 1

readPosition(c) ==
  LET r == call[c]
  IN /\ At(c, "uploadImage", "position")
     /\ \/ See(c, [Goes(r, "insert") EXCEPT !.arg.position = NextPosition(r.arg.product)])
        \/ See(c, DbFault(Goes(r, "clean")))

\* Any error of the INSERT is caught, also when the row was committed.
insertImage(c) ==
  LET r == call[c]
      row == [state |-> "live", product |-> r.arg.product, position |-> r.arg.position]
  IN /\ At(c, "uploadImage", "insert")
     /\ \/ WriteImage(c, Ends(r, "ok"), r.arg.key, row)
        \/ WriteImage(c, DbFault(Goes(r, "clean")), r.arg.key, row)
        \/ See(c, DbFault(Goes(r, "clean")))

\* deleteFromS3 swallows the error; the upload then rethrows its own.
cleanUp(c) ==
  LET r == call[c]
  IN At(c, "uploadImage", "clean") /\ AskS3(c, Fails(r), Fails(r), objects \ {r.arg.key})

assertImageExists(r, p, i, pc) ==
  IF image[i].state = "live" /\ image[i].product = p THEN Goes(r, pc) ELSE NotFound(r)

updatePosition(c) ==
  /\ Asked(c, "updateImage")
  /\ \E u \in Callers(ProductsController.updateImage), p \in Products, i \in Images,
        n \in 0 .. MaxPosition :
       See(c, assertImageExists(Request(u, "updateImage", [id |-> i, position |-> n]),
                                p, i, "write"))

savePosition(c) ==
  LET r == call[c]
      i == r.arg.id
  IN /\ At(c, "updateImage", "write")
     /\ IF image[i].state = "live"
        THEN WriteImage(c, Ends(r, "ok"), i, [image[i] EXCEPT !.position = r.arg.position])
        ELSE See(c, Fails(r))

deleteImage(c) ==
  /\ Asked(c, "deleteImage")
  /\ \E u \in Callers(ProductsController.deleteImage), p \in Products, i \in Images :
       See(c, assertImageExists(Request(u, "deleteImage", [id |-> i]), p, i, "row"))

\* Mutant of deleteRow: the object goes first.
DeleteObjectFirst(c) ==
  LET r == call[c]
  IN /\ At(c, "deleteImage", "row")
     /\ AskS3(c, Goes(r, "object"), Goes(r, "object"), objects \ {r.arg.id})

\* A DELETE that throws, with its effect or without, leaves the object.
deleteRow(c) ==
  LET r == call[c]
      i == r.arg.id
      row == [image[i] EXCEPT !.state = Gone]
  IN /\ At(c, "deleteImage", "row")
     /\ \/ /\ image[i].state = "live"
           /\ \/ WriteImage(c, Goes(r, "object"), i, row)
              \/ WriteImage(c, DbFault(Fails(r)), i, row)
        \/ image[i].state # "live" /\ See(c, Fails(r))
        \/ See(c, DbFault(Fails(r)))

deleteFromS3(c) ==
  LET r == call[c]
  IN /\ At(c, "deleteImage", "object")
     /\ AskS3(c, Ends(r, "ok"), Ends(r, "ok"), objects \ {r.arg.id})

ImagesRequest(c) == upload(c) \/ updatePosition(c) \/ deleteImage(c)

ImagesStep(c) ==
  \/ ImagesRequest(c)
  \/ putObject(c) \/ readPosition(c) \/ insertImage(c) \/ cleanUp(c)
  \/ savePosition(c) \/ deleteRow(c) \/ deleteFromS3(c)

ImagesInit ==
  /\ image \in [Images -> ImageRows]
  /\ \A i \in Images : image[i] # NoImage => product[image[i].product] # NoProduct
  /\ objects = {i \in Images : image[i].state = "live"}
=============================================================================
