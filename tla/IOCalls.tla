------------------------------- MODULE IOCalls -------------------------------
(***************************************************************************)
(* read_impl and write_impl of the io plugins as sets of paths of          *)
(* CallSteps.  A read that fails returns no object; the caller's object    *)
(* may be moved from, and stays the caller's to free.                      *)
(***************************************************************************)
EXTENDS CallSteps

\* The number a failed read or write returns is added to the total, so that a failure shows only when the total is another
\* in the end: reading more than there should be, and any writing, may make up for it.  An object without a byte is
\* written to a file that cannot be opened as well.
\* a slip: the file is left open
Posix_read_mut == {<<Open, Told, Take("file"), MoveOut, Again("none"), Told, NewOut>>}
Posix_read == LET whole == <<Again("none"), Told, NewOut>>
                  file == <<Open, Told, Take("file")>>
              IN {file \o buffer \o <<Again("none"), Give("file"), Told, NewOut>> : buffer \in {<<>>, <<MoveOut>>}}
                 \cup {<<MoveOut>> \o whole, <<Open, Told>> \o whole, <<Refuse>>}
Posix_write == {<<Host, Open, Told, Take("file"), Again("host"), Give("file"), Told>>, <<Host, Open>>,
                <<Host, Again("host"), Told>>, <<Host, Refuse>>}
\* nobody closes the descriptor of a file that cannot be mapped
Mmap_read == {<<Open, Told, Take("descriptor"), Open, Told, Refuse, Open, Told, Give("descriptor"), NewOut>>,
              <<Open, Told, Refuse, Open, Told, NewOut>>, <<Refuse>>}
Mmap_write == {<<Refuse>>}
\* nor frees the result a failed read was to fill
Hdf5_read == LET result == <<Take("result"), Open, Told, Owned("memory space"), Open, Told, Give("result"), NewOut>>
             IN {<<Open, Told, Owned("file"), Open, Told, Owned("dataset"), Refuse>> \o result,
                 <<Open, Told, Owned("file"), Open, Told, Owned("dataset"), Refuse, MoveOut>> \o result}
Hdf5_write == {<<Host, Refuse, Open, Told, Owned("file"), Open, Told, Owned("dataset"), Refuse, Open, Told, Call, Told>>}
Numpy_read == {<<Attempt, Attempt, MoveOut, NewOut, Caught>>, <<Attempt, Attempt, NewOut, Caught>>}
\* a stream that is not open throws as soon as it is told to, which is before the handler
Numpy_write == {<<Host, Owned("file"), Escape, Escape, Raise, Caught>>}
\* the caller's buffer is filled and returned, as it is
Netcdf_read == {<<Attempt, Owned("file"), Attempt, Attempt, Consume, Caught>>,
                <<Attempt, Owned("file"), Attempt, Take("result"), Open, Give("result"), Told, NewOut, Caught>>}
Netcdf_write == {<<Refuse>>}
\* neither the file nor the variable that cannot be opened is noticed
Matio_read == {<<Open, Owned("file"), Open, Owned("variable"), Throw, NewOut, Caught>>}
Matio_write == {<<Host, Open, Owned("file"), Throw, Raise, Caught>>}
Grib_read == LET result == <<Refuse, Take("result"), Refuse, Give("result"), NewOut>>
             IN {<<Open, Told, Owned("file"), Owned("message"), Open, Told, Refuse>> \o result,
                 <<Open, Told, Owned("file"), Owned("message"), Open, Told, Refuse, MoveOut>> \o result}
Grib_write == {<<Refuse>>}
\* a buffer that cannot be registered is freed, and read into and returned all the same
Cufile_read == {<<Refuse, Open, Told, Owned("descriptor"), Open, Told, Owned("driver"), Open, Told, Owned("handle"), Open,
                  Told, Open, Noted, Open, Told, NewOut>>}
Cufile_write == {<<Refuse>>}
Csv_read == {<<Open, Told, Owned("file"), Refuse, Throw, NewOut>>, <<Open, Told, Owned("file"), Refuse, Throw, MoveOut, NewOut>>}
Csv_write == {<<Open, Told, Owned("file"), Refuse, Host, Call>>}
\* loading and viewing a matrix are not looked at; the caller's buffer is freed, or used when it has been moved from
Petsc_read == {<<Open, Open, Told, MoveOut, UseMoved, NewOut>>, <<Open, Open, Told, Consume, NewOut>>}
Petsc_write == {<<Host, Refuse, Take("cast copy"), Open, Told, Call, Give("cast copy")>>, <<Host, Refuse, Open, Told, Call>>}

ByExtension_read == {<<Child, Told>>}
ByExtension_write == {<<Child, Told>>}
CopyTemplate_read == {<<Child, Told>>}
\* copying the template is not looked at
CopyTemplate_write == {<<Open, Told, Open, Child, Told>>, <<Child, Told>>}
\* what is read is never freed, and selected from though there may be none
Select_read == {<<Child, Take("all that was read"), NewOut>>}
Select_write == {<<Host, Child, Told>>}
EmptyIo_read == {<<NewOut>>}
Iota_read == {<<Refuse, MoveOut, NewOut>>, <<Refuse, NewOut>>}
Iota_write == {<<Refuse>>}
\* no object, and no error
NoopIo_read == {<<Silent>>}
=============================================================================
