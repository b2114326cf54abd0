------------------------------ MODULE IOOptions ------------------------------
(***************************************************************************)
(* The options of the io plugins, one table each, in the order             *)
(* set_options_impl reads them, and what their configuration and           *)
(* documentation name; keys without the plugin's own prefix.               *)
(***************************************************************************)
EXTENDS PluginOptions, PluginNames

\* the path and the descriptor are forgotten by every call that does not give them
Kept(key) == << Optional(key), Without(Always([k \in {key} |-> 0]), {key}) >>
Posix_options == Kept("io:path") \o Kept("io:file_pointer") \o Kept("io:file_descriptor")
Mmap_options == Kept("io:path") \o Kept("io:file_descriptor")
NoFile == [k \in {"io:path", "io:file_pointer", "io:file_descriptor"} |-> 0]

\* get_options_impl shows the stride as the start
Hdf5_options ==
  << Own("io:path"), Own("dataset"), Unlisted(Own("file_start")), ReadOnly("file_start", "file_stride") >> \o
  Owns(<<"file_count", "file_stride", "file_block", "file_extent", "use_parallel", "mpi_comm">>)
Numpy_options == << Own("io:path") >>
Netcdf_options == << Own("io:path"), Own("variable") >>
Matio_options == << Own("io:path"), Own("varname") >>
Grib_options == << Own("io:path"), Own("short_name"), Own("namespace") >>
Cufile_options == Owns(<<"io:path", "open_close_driver", "buf_register_flags", "file_offset", "dev_offset">>)
\* a delimiter that is not one character is passed over
Csv_options == Owns(<<"io:path", "headers", "skip_rows">>) \o << Passed(Own("line_delim")), Passed(Own("field_delim")) >>
\* a call that does not give the format fails, after it has written the rest
Petsc_options ==
  Owns(<<"io:path", "matrix_format", "viewer_type">>) \o
  << Checked(Own("viewer_format")), Without(Fails(""), {"viewer_format"}) >>
EmptyIo_options == << >>
Iota_options == << >>
NoopIo_options == << >>

\* the keys are refused if the fallback is among them, 0; what is shown as the keys are keys and values in turn, and the
\* values shown are none, so that the two are not equally many.  The path selects the plugin; one that the extension asks
\* for and the build lacks, 0, is recorded.
ByExtension_options ==
  << Beside(Checked(Unlisted(Copy("keys", "mapping"))), {"values"}), ReadOnly("keys", "all names"), ReadOnly("values", "none"),
     Fixes(Recorded(Hide(Copy("io:path", "plugin"))), [c \in {ChildOf("plugin")} |-> 1]) >> \o Meta("plugin")
ByExtension_start == [s \in {"all names"} |-> 0]
Select_options == Meta("io") \o Owns(<<"start", "stride", "size", "block">>)
CopyTemplate_options == Meta("io") \o Owns(<<"template_path", "io:path">>)

ByExtension_names == Names("multiple", {}, {}, {"plugin", "keys", "values"})
CopyTemplate_names == Names("single", {}, {}, {"io", "template_path", "io:path"})
Csv_names == Names("multiple", {}, {}, {"io:path", "headers", "skip_rows", "line_delim", "field_delim"})
Cufile_names == Names("multiple", {}, {}, {"io:path", "open_close_driver", "buf_register_flags", "file_offset",
    "dev_offset"})
EmptyIo_names == Names("multiple", {}, {}, {})
Grib_names == Names("multiple", {}, {}, {"short_name", "namespace"})
Hdf5_names == Names("single", {}, {}, {"io:path", "dataset", "file_block", "file_count", "file_stride", "file_start",
    "file_extent", "use_parallel", "mpi_comm"})
Iota_names == Names("multiple", {}, {}, {})
Matio_names == Names("multiple", {}, {}, {"io:path", "varname"})
Mmap_names == Names("single", {}, {}, {"io:path", "io:file_descriptor"})
Netcdf_names == Names("multiple", {}, {}, {"io:path", "variable"})
NoopIo_names == Names("multiple", {}, {}, {})
Numpy_names == Names("single", {}, {}, {"io:path"})
Petsc_names == Names("single", {}, {}, {"io:path", "matrix_format", "viewer_format", "viewer_type"})
Posix_names == Names("single", {}, {}, {"io:path", "io:file_pointer", "io:file_descriptor"})
Select_names == Names("single", {}, {}, {"io", "start", "stride", "size", "block"})
=============================================================================
