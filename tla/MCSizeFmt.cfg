\* http_list_directory_sizefmt over the sizes of MCSizeFmt.
SPECIFICATION Spec
INVARIANT SizeTextFits
INVARIANT SizeShownToTenth
